---- MODULE Spec2Model ----
(***************************************************************************)
(* A model of the Matrix Keymaster (server: state manager, publication     *)
(* queue, publisher; client: subscriber worker) and of the shared          *)
(* transport registries (TransportServer / TransportClient).               *)
(*                                                                         *)
(* Paths ("keychains") are sequences of key names: "foo.bar.baz" is        *)
(* <<"foo","bar","baz">>, the string "Root" is <<"Root">> and the empty    *)
(* string is <<>>.  The key names of the model are chosen so that none is  *)
(* a string prefix of another; ZMQ's byte-prefix topic filter therefore    *)
(* coincides with the path prefix relation used below.                     *)
(*                                                                         *)
(* A YAML node is a function from the relative paths that exist below it   *)
(* (the empty path is the node itself) to "MAP" for a mapping or to the    *)
(* scalar's text.                                                          *)
(***************************************************************************)
EXTENDS Integers, Sequences, FiniteSets, TLC

VARIABLES
    root,         \* _root_node.front(): the Value Tree
    data_queue,   \* _data_queue: tsemfifo<data_package>
    sm_pending,   \* data_packages the state manager is blocked on in _data_queue.put()
    reply,        \* the reply sent on state_sock for the last request
    lastReq,      \* history: the last request served, numbered
    lastMut,      \* history: the last PUT or DEL that succeeded
    putlog,       \* history: for each accepted PUT, its path, the room there was, the subscriptions
    run_pc,       \* position of the thread that called run()
    callbacks,    \* Keymaster::_callbacks of each client (its keys)
    filters,      \* ZMQ_SUBSCRIBE filters of each client's sub_sock (a bag)
    inbox,        \* messages queued at each client's sub_sock
    cb_log,       \* history: the callback invocations of each client
    dropped,      \* history: messages the PUB socket dropped for a client
    unsubbed,     \* history: <<client, key>> that were unsubscribed at some time
    nsub          \* number of subscribe/unsubscribe calls made so far

kmvars == <<root, data_queue, sm_pending, reply, lastReq, lastMut, putlog, run_pc,
            callbacks, filters, inbox, cb_log, dropped, unsubbed, nsub>>

VARIABLES
    ts_transports,  \* TransportServer::transports: component -> transport -> shared_ptr
    tc_transports,  \* TransportClient::transports: urn -> shared_ptr
    handle,         \* the shared_ptr each consumer holds, and where the consumer is
    alive,          \* the transport instances constructed and not yet destroyed
    next_inst,      \* number of instances constructed so far
    since_release,  \* history: per key, the instances get_transport returned since the last release
    released,       \* history: per key, the release_transport calls since the last get_transport
    tr_last,        \* history: the last registry call or handle drop
    ts_configured   \* per server key, the instance whose URLs the store holds at
                    \* components.<c>.Transports.<t>.AsConfigured, or NullPtr

trvars == <<ts_transports, tc_transports, handle, alive, next_inst, since_release,
            released, tr_last, ts_configured>>

VARIABLES
    comp_state,   \* the lifecycle state of each Component
    comp_events,  \* the lifecycle events published to each Component and not yet handled
    arch_phase,   \* where the Architect is in driving the components
    nbcast,       \* number of lifecycle events broadcast so far
    fsm_last      \* history: the last event a Component handled

fsmvars == <<comp_state, comp_events, arch_phase, nbcast, fsm_last>>

VARIABLES
    put_fifo,     \* Keymaster::_put_fifo: the (key, value, create) tuples of put_nb
    memo,         \* _put_task: the last value written per key
    pt_create,    \* _put_task: its local variable create
    put_rpcs,     \* history: the PUT calls _put_task has made, in order
    seen,         \* history: per key, the value of the last tuple _put_task handled
    nputnb        \* number of put_nb calls made so far

dpvars == <<put_fifo, memo, pt_create, put_rpcs, seen, nputnb>>

VARIABLES
    shared_lock,  \* Keymaster::_shared_lock: the thread that holds it, or "free"
    km_sock,      \* Keymaster::_km_ and the state of the REQ socket it points to
    caller,       \* each thread in _call_keymaster: where it is, its frames, its result
    wire,         \* history: the frames sent and the replies received on the socket
    ncall         \* number of calls of _call_keymaster made so far

rpcvars == <<shared_lock, km_sock, caller, wire, ncall>>

VARIABLES
    initial_urls,           \* Keymaster.URLS.Initial of the configuration
    state_service_urls,     \* KmImpl::_state_service_urls
    publish_service_urls,   \* KmImpl::_publish_service_urls
    server_thread,          \* where _server_thread (the publisher) is
    state_manager_thread,   \* where _state_manager_thread is
    heartbeat_thread,       \* where _heartbeat_thread is
    server_thread_ready,    \* KmImpl::_server_thread_ready
    state_manager_thread_ready, \* KmImpl::_state_manager_thread_ready
    as_configured,          \* history: the URL lists written to Keymaster.URLS.AsConfigured
    nrun                    \* number of calls of run() so far

bootvars == <<initial_urls, state_service_urls, publish_service_urls, server_thread,
              state_manager_thread, heartbeat_thread, server_thread_ready,
              state_manager_thread_ready, as_configured, nrun>>

VARIABLES
    running,      \* KmImpl::_running
    wake_time,    \* heartbeat_task: wake_time, in seconds
    hb_pc,        \* where heartbeat_task is
    hb_val,       \* heartbeat_task: t, the value of this pass
    hb_sock,      \* heartbeat_task: the state of its REQ socket
    hb_wire,      \* the heartbeat request the state manager has not served yet
    hb_resp,      \* the replies the heartbeat socket has not received yet
    nbeat,        \* passes of the heartbeat loop so far
    samples,      \* history: the values GETs of Keymaster.heartbeat returned, in the order served
    term_pc,      \* where terminate() is
    pipe,         \* what was sent on the state manager's control pipe and not received yet
    queue_released \* _data_queue.release() was called

lifevars == <<running, wake_time, hb_pc, hb_val, hb_sock, hb_wire, hb_resp, nbeat, samples,
              term_pc, pipe, queue_released>>

VARIABLES
    cr_side,      \* which create is called: TransportServer::create or TransportClient::create
    cr_spec,      \* <key>.Specified in the store, or the URN of the client
    cr_pc,        \* where the creation is, and how it ended
    cr_factory,   \* the factory create has chosen
    cr_urls,      \* PubImpl::_publish_service_urls
    cr_i,         \* PubImpl::PubImpl: the URL the loop is at
    cr_fault,     \* history: what went wrong while binding
    cr_asconf     \* <key>.AsConfigured in the store

crvars == <<cr_side, cr_spec, cr_pc, cr_factory, cr_urls, cr_i, cr_fault, cr_asconf>>

VARIABLES
    rc_pc, \* Keymaster::rpc: where the call is
    rc_key, \* the key of the service
    rc_to, \* the time rpc may wait, in ticks
    rc_waited, \* the ticks spent in cb.rval
    rc_callbacks, \* Keymaster::_callbacks of the client: the keys subscribed to
    rc_request, \* <key>.request has been written to the store
    rc_served, \* the service has written <key>.reply
    rc_cb, \* KeymasterRPCCB: the callback has been called with the reply
    rc_reply, \* the yaml_result rpc returns
    rc_trace, \* history: what rpc and the worker have done in this call
    rc_calls \* calls of rpc so far

rcvars == <<rc_pc, rc_key, rc_to, rc_waited, rc_callbacks, rc_request, rc_served, rc_cb, rc_reply, rc_trace, rc_calls>>

VARIABLES
    sb_pc, \* Keymaster::subscribe: where the call is, and how it ended
    sb_key, \* the key subscribed to
    sb_i, \* _run: the pass of the loop that asks for the publishing URLs
    sb_km, \* the transport of _km_url
    sb_server, \* whether a Keymaster server answers
    sb_pub, \* the transports of Keymaster.URLS.AsConfigured.Pub on the server
    sb_pub_urls, \* Keymaster::_km_pub_urls
    sb_thread, \* _subscriber_thread
    sb_ready, \* _subscriber_thread_ready
    sb_bound, \* whether the worker has bound the pipe
    sb_pipe, \* the request on the pipe
    sb_ack, \* the answer on the pipe
    sb_callbacks, \* Keymaster::_callbacks
    sb_calls \* calls of subscribe so far

sbvars == <<sb_pc, sb_key, sb_i, sb_km, sb_server, sb_pub, sb_pub_urls, sb_thread, sb_ready, sb_bound, sb_pipe, sb_ack, sb_callbacks, sb_calls>>

VARIABLES
    tc_pc, \* the thread that uses the client: where its call is
    tc_op, \* the last call of that thread, and what it returned
    tc_ops, \* calls on the client so far
    tc_connected, \* Impl::_connected
    tc_thread, \* Impl::_sub_thread
    tc_wpc, \* sub_task: where the worker is
    tc_ready, \* Impl::_task_ready
    tc_pipe, \* the control message on the pipe
    tc_ack, \* the answer on the pipe
    tc_subscribers, \* Impl::_subscribers: the keys that have a callback
    tc_filter, \* the subscriptions set on sub_sock
    tc_inbox, \* the published keys that wait in sub_sock
    tc_found, \* sub_task: the callback found for the key just received
    tc_delivered, \* history: the calls of callbacks
    tc_published, \* publications so far
    tc_access, \* history: the threads that have touched sub_sock or _subscribers
    tc_sent, \* history: control messages sent on the pipe
    tc_open, \* the sockets of the worker are open
    tc_fault \* history: the last zmq::error_t caught by the worker

tcvars == <<tc_pc, tc_op, tc_ops, tc_connected, tc_thread, tc_wpc, tc_ready, tc_pipe, tc_ack, tc_subscribers, tc_filter, tc_inbox, tc_found, tc_delivered, tc_published, tc_access, tc_sent, tc_open, tc_fault>>

VARIABLES
    sv_thread, \* state_manager_task: in its loop, or ended by an exception
    sv_interval, \* KmImpl::_clone_interval, from Keymaster.clone_interval
    put_counter, \* state_manager_task: put_counter
    sv_live, \* the length of the list _root_node
    sv_clones, \* history: the clones made
    sv_good, \* history: the PUTs that succeeded
    sv_read, \* history: the requests read from state_sock
    sv_sent \* history: the replies sent on state_sock

svvars == <<sv_thread, sv_interval, put_counter, sv_live, sv_clones, sv_good, sv_read, sv_sent>>

VARIABLES
    ks_pc, \* the thread that owns the client: "idle", "wait", "destroyed"
    ks_call, \* the call it is in: [id, op, key]
    ks_pipe, \* requests sent on the control pipe and not yet read by the worker
    ks_acked, \* ids of the requests the worker has answered
    ks_worker, \* _subscriber_thread: "poll" or "exited"
    ks_callbacks, \* _callbacks of the worker (the keys)
    ks_filter, \* filters set on sub_sock, counted per key
    ks_sock, \* topics queued at sub_sock
    ks_log, \* topics the callbacks were invoked with, in order
    ks_taken, \* number of messages taken from sub_sock
    ks_done, \* per key, what was there when unsubscribe(key) last returned true
    ks_quit, \* length of ks_log when the destructor got the reply to QUIT, or -1
    ks_ops, \* calls made so far
    ks_pubs \* publications made so far

ksvars == <<ks_pc, ks_call, ks_pipe, ks_acked, ks_worker, ks_callbacks, ks_filter, ks_sock, ks_log, ks_taken, ks_done, ks_quit, ks_ops, ks_pubs>>

VARIABLES
    dd_types, \* data_description::fields: the type of each field, in declaration order
    dd_offsets, \* the offset of each field (data_field::offset)
    dd_size, \* what size() returned
    dd_pc \* "new" before the call of size(), "sized" after it

ddvars == <<dd_types, dd_offsets, dd_size, dd_pc>>

\* the parts of the transports and of the clients
latevars == <<crvars, rcvars, sbvars, tcvars, svvars, ksvars, ddvars>>

\* the parts of the Keymaster and of the components
earlyvars == <<kmvars, trvars, fsmvars, dpvars, rpcvars, bootvars, lifevars>>

\* what the actions of one part leave alone
nonkm == <<trvars, fsmvars, dpvars, rpcvars, bootvars, lifevars, latevars>>

nontr == <<kmvars, fsmvars, dpvars, rpcvars, bootvars, lifevars, latevars>>

nonfsm == <<kmvars, trvars, dpvars, rpcvars, bootvars, lifevars, latevars>>

nondp == <<kmvars, trvars, fsmvars, rpcvars, bootvars, lifevars, latevars>>

nonrpc == <<kmvars, trvars, fsmvars, dpvars, bootvars, lifevars, latevars>>

nonboot == <<trvars, fsmvars, dpvars, rpcvars, lifevars, latevars>>

nonlife == <<trvars, fsmvars, dpvars, rpcvars, latevars>>

noncr == <<earlyvars, rcvars, sbvars, tcvars, svvars, ksvars, ddvars>>

nonrc == <<earlyvars, crvars, sbvars, tcvars, svvars, ksvars, ddvars>>

nonsb == <<earlyvars, crvars, rcvars, tcvars, svvars, ksvars, ddvars>>

nontc == <<earlyvars, crvars, rcvars, sbvars, svvars, ksvars, ddvars>>

nonsv == <<earlyvars, crvars, rcvars, sbvars, tcvars, ksvars, ddvars>>

nonks == <<earlyvars, crvars, rcvars, sbvars, tcvars, svvars, ddvars>>

nondd == <<earlyvars, crvars, rcvars, sbvars, tcvars, svvars, ksvars>>

vars == <<earlyvars, latevars>>

----------------------------------------------------------------------------
(* Bounds *)

MaxReq == 2       \* requests served by the state manager in one behaviour (server alone)
MaxPubReq == 1    \* requests served in one behaviour (server and subscribers)
QueueCap == 3     \* capacity of _data_queue in the model
SubHWM == 2       \* receive high-water mark of a sub_sock in the model
MaxInst == 3      \* transport instances constructed in one behaviour
MaxEvents == 4    \* lifecycle events broadcast in one behaviour
MaxPutNb == 3     \* put_nb calls in one behaviour
MaxCalls == 2     \* calls of _call_keymaster in one behaviour
MaxUrls == 2      \* URLs in Keymaster.URLS.Initial
MaxRuns == 2      \* calls of run() in one behaviour
MaxBeats == 2     \* passes of the heartbeat loop in one behaviour
MaxSamples == 2   \* GETs of Keymaster.heartbeat in one behaviour
MaxSpec == 2      \* entries of a Specified list
MaxTimeout == 2   \* longest time a call of rpc may wait, in ticks
MaxTcOps == 3     \* calls on one transport client
MaxPublished == 2 \* publications sent to one transport client
MaxSvReq == 3     \* requests read by the state manager in one behaviour (with clones)
MaxSubOps == 2    \* subscribe/unsubscribe calls in one behaviour

\* the Keymaster clients that run a subscriber worker
Clients == {"c1"}

----------------------------------------------------------------------------
(* Paths *)

RootKey == <<"Root">>

Min(a, b) == IF a < b THEN a ELSE b

IsPrefix(p, q) == Len(p) <= Len(q) /\ SubSeq(q, 1, Len(p)) = p

Rest(p, q) == SubSeq(q, Len(p) + 1, Len(q))

----------------------------------------------------------------------------
(* The Value Tree (yaml_util) *)

MAP == "MAP"

NullNode == [q \in {<<>>} |-> "~"]

Scalar(s) == [q \in {<<>>} |-> s]

EmptyMap == [q \in {<<>>} |-> MAP]

\* the node below path p of node n
SubNode(n, p) ==
    [q \in {Rest(p, r) : r \in {r \in DOMAIN n : IsPrefix(p, r)}} |-> n[p \o q]]

\* node n with whatever is at or below p replaced by v
Graft(n, p, v) ==
    LET kept == {r \in DOMAIN n : ~IsPrefix(p, r)}
        new  == {p \o q : q \in DOMAIN v}
    IN  [r \in kept \cup new |-> IF r \in new THEN v[Rest(p, r)] ELSE n[r]]

get_yaml_node(n, p) ==
    IF p \in DOMAIN n
    THEN [result |-> TRUE,  node |-> SubNode(n, p)]
    ELSE [result |-> FALSE, node |-> NullNode]

\* every proper prefix of p that exists in n is a mapping
CanCreate(n, p) ==
    \A i \in 0..(Len(p) - 1) :
        SubSeq(p, 1, i) \in DOMAIN n => n[SubSeq(p, 1, i)] = MAP

put_yaml_node(n, p, v, create) ==
    IF p = <<>>
    THEN [result |-> TRUE, tree |-> v]
    ELSE IF p \in DOMAIN n
    THEN [result |-> TRUE, tree |-> Graft(n, p, v)]
    ELSE IF create /\ CanCreate(n, p)
    THEN LET g   == Graft(n, p, v)
             mid == {SubSeq(p, 1, i) : i \in 0..(Len(p) - 1)}
         IN  [result |-> TRUE,
              tree   |-> [r \in DOMAIN g \cup mid |->
                             IF r \in DOMAIN g THEN g[r] ELSE MAP]]
    ELSE [result |-> FALSE, tree |-> n]

delete_yaml_node(n, p) ==
    IF p # <<>> /\ p \in DOMAIN n
    THEN [result |-> TRUE,
          tree   |-> [r \in {r \in DOMAIN n : ~IsPrefix(p, r)} |-> n[r]]]
    ELSE [result |-> FALSE, tree |-> n]

\* the YAML text of a node (operator<< on a YAML::Node) and its parse
Emit(n) == {<<p, n[p]>> : p \in DOMAIN n}

Load(text) ==
    [p \in {e[1] : e \in text} |-> (CHOOSE e \in text : e[1] = p)[2]]

----------------------------------------------------------------------------
(* The configuration document and the tree the state manager starts with *)

StateUrls == "inproc://matrix.keymaster"
PubUrls   == "inproc://matrix.keymaster.publisher"

MinimalConfig ==
    put_yaml_node(EmptyMap, <<"Keymaster", "URLS", "Initial">>,
                  Scalar(StateUrls), TRUE).tree

\* the same with components of a user: foo: {bar: {baz: 7}, qux: 7}
UserConfig ==
    put_yaml_node(
        put_yaml_node(MinimalConfig, <<"foo", "bar", "baz">>, Scalar("7"), TRUE).tree,
        <<"foo", "qux">>, Scalar("7"), TRUE).tree

ConfigDocs == {MinimalConfig, UserConfig}

\* state_manager_task before its poll loop: the three put_yaml_val calls
StartupTree(config) ==
    LET t1 == put_yaml_node(config, <<"KeymasterServer", "URLS">>,
                            Scalar(StateUrls), TRUE).tree
        t2 == put_yaml_node(t1, <<"Keymaster", "URLS", "AsConfigured", "State">>,
                            Scalar(StateUrls), TRUE).tree
    IN  put_yaml_node(t2, <<"Keymaster", "URLS", "AsConfigured", "Pub">>,
                      Scalar(PubUrls), TRUE).tree

----------------------------------------------------------------------------
(* Requests on the state socket *)

ReqPaths == {RootKey, <<"foo">>, <<"foo", "bar">>, <<"foo", "bar", "baz">>}

PutValues == {Scalar("42"), put_yaml_node(EmptyMap, <<"baz">>, Scalar("42"), TRUE).tree}

\* a request is its frames: the command, then the frames of z_recv_multipart
Requests ==
    {<<"ping">>, <<"LIST">>, <<"GET">>, <<"DEL">>}
    \cup {<<"GET", p>> : p \in ReqPaths}
    \cup {<<"DEL", p>> : p \in ReqPaths}
    \cup {<<"PUT", p>> : p \in {<<"foo">>}}
    \cup {<<"PUT", p, Emit(v)>> : p \in {<<"foo", "bar">>, <<"foo", "bar", "baz">>},
                                   v \in PutValues}
    \cup {<<"PUT", p, Emit(v), "create">> : p \in ReqPaths, v \in PutValues}

TextReply(m) == [kind |-> "text", result |-> FALSE, node |-> Emit(NullNode), msg |-> m]

\* operator<< on a yaml_result
ResultReply(res, n) == [kind |-> "yaml_result", result |-> res, node |-> Emit(n), msg |-> ""]

----------------------------------------------------------------------------
(* KeymasterServer::KmImpl::publish *)

\* st = [q: the queue, pend: what a blocking put waits to add, rval]
RECURSIVE publish_loop(_, _, _, _, _, _)
publish_loop(node, keys, i, block, tag, st) ==
    IF i > Len(keys)
    THEN st
    ELSE LET key == SubSeq(keys, 1, i)
             r   == get_yaml_node(node, key)
             dp  == [key |-> key, val |-> Emit(r.node), tag |-> tag]
             st2 == IF ~r.result
                    THEN st
                    ELSE IF block
                    THEN IF st.pend = <<>> /\ Len(st.q) < QueueCap
                         THEN [st EXCEPT !.q = Append(@, dp)]
                         ELSE [st EXCEPT !.pend = Append(@, dp)]
                    ELSE IF st.rval /\ Len(st.q) < QueueCap
                         THEN [st EXCEPT !.q = Append(@, dp)]
                         ELSE [st EXCEPT !.rval = FALSE]
         IN  publish_loop(node, keys, i + 1, block, tag, st2)

\* the loop stops one short: the changed node itself is not published
publish_short(node, key, block, tag, q) ==
    LET st == [q |-> q, pend |-> <<>>, rval |-> TRUE]
    IN  IF key = <<>>
        THEN st
        ELSE publish_loop(node, SubSeq(key, 1, Len(key) - 1), 1, block, tag, st)

publish(node, key, block, tag, q) ==
    LET st == [q |-> q, pend |-> <<>>, rval |-> TRUE]
    IN  IF key = <<>>
        THEN st     \* dp is filled in with "Root" and the tree, and never queued
        ELSE publish_loop(node, key, 1, block, tag, st)

----------------------------------------------------------------------------
(* KeymasterServer::KmImpl::state_manager_task: one request *)

\* the outcome of one request: the tree, the queue, what a blocking put
\* still has to add, and the reply
Outcome(tree, st, rep) == [tree |-> tree, q |-> st.q, pend |-> st.pend, reply |-> rep]

Untouched(tree, q, rep) == [tree |-> tree, q |-> q, pend |-> <<>>, reply |-> rep]

\* "Root" is looked up as a key of the tree
handle_GET_noremap(frame, tree, q) ==
    IF frame # <<>>
    THEN LET r == get_yaml_node(tree, frame[1])
         IN  Untouched(tree, q, ResultReply(r.result, r.node))
    ELSE Untouched(tree, q, TextReply("ERROR: Keychain expected, but not received!"))

handle_GET(frame, tree, q) ==
    IF frame # <<>>
    THEN LET keychain == IF frame[1] = RootKey THEN <<>> ELSE frame[1]
             r        == get_yaml_node(tree, keychain)
         IN  Untouched(tree, q, ResultReply(r.result, r.node))
    ELSE Untouched(tree, q, TextReply("ERROR: Keychain expected, but not received!"))

\* publish is called whatever the result of the put
handle_PUT_always(frame, tree, q, tag) ==
    IF Len(frame) > 1
    THEN LET keychain == IF frame[1] = RootKey THEN <<>> ELSE frame[1]
             create   == Len(frame) > 2 /\ frame[3] = "create"
             r        == put_yaml_node(tree, keychain, Load(frame[2]), create)
         IN  Outcome(r.tree, publish(r.tree, keychain, FALSE, tag, q),
                     ResultReply(r.result, NullNode))
    ELSE Untouched(tree, q,
                   TextReply("ERROR: Keychain and value expected, but not received!"))

handle_PUT(frame, tree, q, tag) ==
    IF Len(frame) > 1
    THEN LET keychain == IF frame[1] = RootKey THEN <<>> ELSE frame[1]
             create   == Len(frame) > 2 /\ frame[3] = "create"
             n        == Load(frame[2])
             r        == put_yaml_node(tree, keychain, n, create)
             st       == IF r.result
                         THEN publish(r.tree, keychain, FALSE, tag, q)
                         ELSE [q |-> q, pend |-> <<>>, rval |-> TRUE]
         IN  Outcome(r.tree, st, ResultReply(r.result, NullNode))
    ELSE Untouched(tree, q,
                   TextReply("ERROR: Keychain and value expected, but not received!"))

\* the node is deleted from a copy of the tree
handle_DEL_copy(frame, tree, q, tag) ==
    IF frame # <<>>
    THEN LET keychain == frame[1]
             r        == delete_yaml_node(tree, keychain)
             st       == IF r.result
                         THEN publish(tree, keychain, TRUE, tag, q)
                         ELSE [q |-> q, pend |-> <<>>, rval |-> TRUE]
         IN  Outcome(tree, st, ResultReply(r.result, NullNode))
    ELSE Untouched(tree, q, TextReply("ERROR: Keychain expected, but not received!"))

\* the ancestors are published before the node is deleted
handle_DEL_early(frame, tree, q, tag) ==
    IF frame # <<>>
    THEN LET keychain == frame[1]
             r        == delete_yaml_node(tree, keychain)
             st       == IF r.result
                         THEN publish(tree, keychain, TRUE, tag, q)
                         ELSE [q |-> q, pend |-> <<>>, rval |-> TRUE]
         IN  Outcome(r.tree, st, ResultReply(r.result, NullNode))
    ELSE Untouched(tree, q, TextReply("ERROR: Keychain expected, but not received!"))

handle_DEL(frame, tree, q, tag) ==
    IF frame # <<>>
    THEN LET keychain == frame[1]
             r        == delete_yaml_node(tree, keychain)
             st       == IF r.result
                         THEN publish(r.tree, keychain, TRUE, tag, q)
                         ELSE [q |-> q, pend |-> <<>>, rval |-> TRUE]
         IN  Outcome(r.tree, st, ResultReply(r.result, NullNode))
    ELSE Untouched(tree, q, TextReply("ERROR: Keychain expected, but not received!"))

handle_request(frames, tree, q, tag) ==
    LET key   == frames[1]
        frame == Tail(frames)
    IN  CASE key = "ping" -> Untouched(tree, q, TextReply("I'm not dead yet!"))
          [] key = "GET"  -> handle_GET(frame, tree, q)
          [] key = "PUT"  -> handle_PUT(frame, tree, q, tag)
          [] key = "DEL"  -> handle_DEL(frame, tree, q, tag)
          [] OTHER        -> Untouched(tree, q, TextReply("Unknown request '" \o key))

----------------------------------------------------------------------------
(* Subscriptions of the clients, as the publisher and the log see them *)

\* Keymaster::_subscriber_task maps the empty key to "Root"
SubKey(key) == IF key = <<>> THEN RootKey ELSE key

SubKeys == {<<>>, <<"foo">>, <<"foo", "bar">>, <<"foo", "bar", "baz">>}

Subscribed == {<<c, k>> : c \in Clients, k \in {SubKey(k) : k \in SubKeys}}

CurrentSubs == {ck \in Subscribed : ck[2] \in callbacks[ck[1]]}

\* a ZMQ_SUB socket passes a message whose topic starts with one of its filters
Matches(c, topic) ==
    \E f \in DOMAIN filters[c] : filters[c][f] > 0 /\ IsPrefix(f, topic)

----------------------------------------------------------------------------
(* The state machine *)

----------------------------------------------------------------------------
(* The Component lifecycle (spec 4.E) *)

Components == {"comp1", "comp2"}

States == {"Standby", "Ready", "Running"}

Events == {"Initialize", "Start", "Stop", "Stand_down"}

NoEvent == [comp |-> "none", from |-> "none", event |-> "none", to |-> "none"]

FSMInit ==
    /\ comp_state = [c \in Components |-> "Standby"]
    /\ comp_events = [c \in Components |-> <<>>]
    /\ arch_phase = "down"
    /\ nbcast = 0
    /\ fsm_last = NoEvent

----------------------------------------------------------------------------
(* Keymaster client: deferred puts *)

DPInit ==
    /\ put_fifo = <<>>
    /\ memo = <<>>
    /\ pt_create = FALSE
    /\ put_rpcs = <<>>
    /\ seen = <<>>
    /\ nputnb = 0

----------------------------------------------------------------------------
(* Transports: creation *)

\* no creation is going on
CRInit ==
    /\ cr_side = "server"
    /\ cr_spec = <<>>
    /\ cr_pc = "none"
    /\ cr_factory = "none"
    /\ cr_urls = <<>>
    /\ cr_i = 0
    /\ cr_fault = "none"
    /\ cr_asconf = <<>>

\* Keymaster::rpc is not called
RCInit ==
    /\ rc_pc = "idle"
    /\ rc_key = "none"
    /\ rc_to = 1
    /\ rc_waited = 0
    /\ rc_callbacks = {}
    /\ rc_request = FALSE
    /\ rc_served = FALSE
    /\ rc_cb = FALSE
    /\ rc_reply = "failed"
    /\ rc_trace = <<>>
    /\ rc_calls = 0

\* Keymaster::subscribe is not called, the subscriber thread never started
SBInit ==
    /\ sb_pc = "idle"
    /\ sb_key = "none"
    /\ sb_i = 0
    /\ sb_km = "tcp"
    /\ sb_server = TRUE
    /\ sb_pub = <<"tcp">>
    /\ sb_pub_urls = <<>>
    /\ sb_thread = "none"
    /\ sb_ready = FALSE
    /\ sb_bound = FALSE
    /\ sb_pipe = "none"
    /\ sb_ack = FALSE
    /\ sb_callbacks = {}
    /\ sb_calls = 0

\* a ZMQTransportClient just constructed
TCInit ==
    /\ tc_pc = "idle"
    /\ tc_op = <<"none", "none", "unconnected">>
    /\ tc_ops = 0
    /\ tc_connected = FALSE
    /\ tc_thread = "none"
    /\ tc_wpc = "off"
    /\ tc_ready = FALSE
    /\ tc_pipe = <<>>
    /\ tc_ack = "none"
    /\ tc_subscribers = {}
    /\ tc_filter = {}
    /\ tc_inbox = <<>>
    /\ tc_found = "none"
    /\ tc_delivered = <<>>
    /\ tc_published = 0
    /\ tc_access = {}
    /\ tc_sent = 0
    /\ tc_open = FALSE
    /\ tc_fault = "none"

\* a state manager in its loop that has served nothing
SVInit ==
    /\ sv_thread = "poll"
    /\ sv_interval = 0
    /\ put_counter = 0
    /\ sv_live = 1
    /\ sv_clones = 0
    /\ sv_good = 0
    /\ sv_read = 0
    /\ sv_sent = 0

\* a Keymaster client whose subscriber worker is running, nothing subscribed
KsKeys == {<<"foo">>, <<"foo", "bar">>}

NoKsCall == [id |-> 0, op |-> "none", key |-> <<>>]

NotDone == [log |-> -1, taken |-> 0, queued |-> <<>>]

KSInit ==
    /\ ks_pc = "idle"
    /\ ks_call = NoKsCall
    /\ ks_pipe = <<>>
    /\ ks_acked = {}
    /\ ks_worker = "poll"
    /\ ks_callbacks = {}
    /\ ks_filter = [k \in KsKeys |-> 0]
    /\ ks_sock = <<>>
    /\ ks_log = <<>>
    /\ ks_taken = 0
    /\ ks_done = [k \in KsKeys |-> NotDone]
    /\ ks_quit = -1
    /\ ks_ops = 0
    /\ ks_pubs = 0

\* a data_description with one field, size() not yet called
DDInit ==
    /\ dd_types = <<"int">>
    /\ dd_offsets = <<0>>
    /\ dd_size = 0
    /\ dd_pc = "new"

\* the clients and transports at rest
LateInit ==
    /\ CRInit
    /\ DDInit
    /\ KSInit
    /\ SVInit
    /\ TCInit
    /\ SBInit
    /\ RCInit

----------------------------------------------------------------------------
(* Keymaster server: the heartbeat and terminate() *)

\* Time::getUTC() + one_sec when heartbeat_task starts, in seconds
FirstWake == 9

one_sec == 1

\* a server whose heartbeat has not written yet and that nobody terminates
LifeInit ==
    /\ running = TRUE
    /\ wake_time = FirstWake
    /\ hb_pc = "check"
    /\ hb_val = 0
    /\ hb_sock = "ready"
    /\ hb_wire = <<>>
    /\ hb_resp = 0
    /\ nbeat = 0
    /\ samples = <<>>
    /\ term_pc = "idle"
    /\ pipe = <<>>
    /\ queue_released = FALSE

----------------------------------------------------------------------------
(* Keymaster server: construction and run() *)

\* a URL is <<scheme, name>> or, for tcp, <<scheme, host, port>>
InprocUrl == <<"inproc", "matrix.keymaster">>

TcpUrl == <<"tcp", "*", 42000>>

\* a server that was started and whose threads are in their loops (the
\* state of the other specifications)
BootDone ==
    /\ initial_urls = <<InprocUrl>>
    /\ state_service_urls = <<InprocUrl>>
    /\ publish_service_urls = <<<<"inproc", "matrix.keymaster.publisher">>>>
    /\ server_thread = "loop"
    /\ state_manager_thread = "poll"
    /\ heartbeat_thread = "loop"
    /\ server_thread_ready = TRUE
    /\ state_manager_thread_ready = TRUE
    /\ as_configured = [State |-> <<InprocUrl>>,
                        Pub |-> <<<<"inproc", "matrix.keymaster.publisher">>>>]
    /\ nrun = 1

----------------------------------------------------------------------------
(* Keymaster client: _call_keymaster *)

Threads == {"t1", "t2"}

NoResult == [result |-> TRUE, cause |-> "none"]

NotCalling == [pc |-> "idle", frames |-> <<>>, sent |-> 0, call |-> 0, res |-> NoResult]

RPCInit ==
    /\ shared_lock = "free"
    /\ km_sock = "null"
    /\ caller = [t \in Threads |-> NotCalling]
    /\ wire = <<>>
    /\ ncall = 0

----------------------------------------------------------------------------
(* The transport registries: TransportServer.cc and TransportClient.cc *)

Consumers == {"k1", "k2"}

\* TransportServer::factories and TransportClient::factories, as preloaded
ServerFactories ==
    [s \in {"tcp", "ipc", "inproc", "rtinproc"} |->
        IF s = "rtinproc" THEN "RTTransportServer" ELSE "ZMQTransportServer"]

ClientFactories ==
    [s \in {"tcp", "ipc", "inproc", "rtinproc"} |->
        IF s = "rtinproc" THEN "RTTransportClient" ELSE "ZMQTransportClient"]

\* the server transports of the configuration: <<component, transport>>
ServerKeys == {<<"source", "data">>, <<"source", "aux">>}

\* components.<component>.Transports.<transport>.Specified in the store
Specified(key) ==
    IF key[2] = "data" THEN <<"inproc", "tcp">> ELSE <<"tcp", "rtinproc">>

\* the URNs consumers connect to: <<scheme, rest>>, scheme being parts[0]
Urns == {<<"inproc", "//source.data">>, <<"udp", "//source.data">>}

NoEntry == -1     \* find() == end()
NullPtr == 0      \* an empty shared_ptr

Put(m, k, v) == [x \in DOMAIN m \cup {k} |-> IF x = k THEN v ELSE m[x]]

Erase(m, k) == [x \in DOMAIN m \ {k} |-> m[x]]

\* TransportServer::create: TRUE when it returns an instance, FALSE when
\* it throws CreationError
TS_create(key) ==
    LET transports == Specified(key)
        facts == SelectSeq(transports, LAMBDA s : s \in DOMAIN ServerFactories)
    IN  /\ Len(transports) = Len(facts)
        /\ \A i \in 1..Len(facts) :
              ServerFactories[facts[i]] = ServerFactories[facts[1]]

\* TransportClient::create
TC_create(urn) == urn[1] \in DOMAIN ClientFactories

\* what the registries hold for a key
TS_entry(reg, key) ==
    IF key[1] \in DOMAIN reg /\ key[2] \in DOMAIN reg[key[1]]
    THEN reg[key[1]][key[2]] ELSE NoEntry

TC_entry(reg, urn) == IF urn \in DOMAIN reg THEN reg[urn] ELSE NoEntry

\* TransportServer::get_transport. fresh is the instance create would
\* construct; slot_first tells whether the build evaluates
\* cmi->second[transport_name] before the call of create (the order is
\* unspecified in C++11), which leaves an empty shared_ptr in the map when
\* create throws.
TS_get_transport(reg, key, fresh, slot_first) ==
    LET reg1 == IF key[1] \in DOMAIN reg THEN reg ELSE Put(reg, key[1], <<>>)
        tm   == reg1[key[1]]
    IN  IF key[2] \in DOMAIN tm
        THEN [reg |-> reg1, threw |-> FALSE, inst |-> tm[key[2]], built |-> FALSE]
        ELSE IF TS_create(key)
        THEN [reg |-> Put(reg1, key[1], Put(tm, key[2], fresh)),
              threw |-> FALSE, inst |-> fresh, built |-> TRUE]
        ELSE [reg |-> IF slot_first THEN Put(reg1, key[1], Put(tm, key[2], NullPtr))
                      ELSE reg1,
              threw |-> TRUE, inst |-> NullPtr, built |-> FALSE]

\* TransportClient::get_transport
TC_get_transport(reg, urn, fresh, slot_first) ==
    IF urn \in DOMAIN reg
    THEN [reg |-> reg, threw |-> FALSE, inst |-> reg[urn], built |-> FALSE]
    ELSE IF TC_create(urn)
    THEN [reg |-> Put(reg, urn, fresh), threw |-> FALSE, inst |-> fresh, built |-> TRUE]
    ELSE [reg |-> IF slot_first THEN Put(reg, urn, NullPtr) ELSE reg,
          threw |-> TRUE, inst |-> NullPtr, built |-> FALSE]

\* a release_transport that leaves the registry as it is
TS_release_transport_keep(reg, key, count) == [reg |-> reg, freed |-> {}]

\* TransportServer::release_transport. count is use_count() of the stored
\* shared_ptr. The result tells what is left in the registry and which
\* instance, if any, lost its last reference.
TS_release_transport(reg, key, count) ==
    IF TS_entry(reg, key) = NoEntry
    THEN [reg |-> reg, freed |-> {}]
    ELSE LET inst == TS_entry(reg, key)
         IN  [reg   |-> Put(reg, key[1], Erase(reg[key[1]], key[2])),
              freed |-> IF inst # NullPtr /\ count = 1 THEN {inst} ELSE {}]

\* TransportClient::release_transport
TC_release_transport(reg, urn, count) ==
    IF TC_entry(reg, urn) = NoEntry
    THEN [reg |-> reg, freed |-> {}]
    ELSE LET inst == reg[urn]
         IN  [reg   |-> Erase(reg, urn),
              freed |-> IF inst # NullPtr /\ count = 1 THEN {inst} ELSE {}]

\* a consumer that holds nothing
Idle == [pc |-> "idle", side |-> "none", key |-> <<>>, inst |-> NullPtr]

TRKeys == ({"server"} \X ServerKeys) \cup ({"client"} \X Urns)

NoCall == [op |-> "none", who |-> "none", side |-> "none", key |-> <<>>,
           threw |-> FALSE, inst |-> NullPtr, built |-> FALSE,
           engaged |-> {}, holders |-> {}, entry |-> NoEntry, released |-> 0]

TRInit ==
    /\ ts_transports = <<>>
    /\ tc_transports = <<>>
    /\ handle = [c \in Consumers |-> Idle]
    /\ alive = {}
    /\ next_inst = 0
    /\ since_release = [k \in TRKeys |-> {}]
    /\ released = [k \in TRKeys |-> 0]
    /\ tr_last = NoCall
    /\ ts_configured = [k \in ServerKeys |-> NullPtr]

\* every part but the Keymaster server, before anything has happened
RestInit ==
    /\ TRInit
    /\ FSMInit
    /\ DPInit
    /\ RPCInit
    /\ BootDone
    /\ LifeInit
    /\ LateInit

NoReply == TextReply("")

\* what state_manager_task publishes before its poll loop, in order
StartupMessages ==
    LET all(st) == st.q \o st.pend
        t1 == put_yaml_node(MinimalConfig, <<"KeymasterServer", "URLS">>,
                            Scalar(StateUrls), TRUE).tree
        t3 == StartupTree(MinimalConfig)
    IN  all(publish(t1, <<"KeymasterServer", "URLS">>, TRUE, 0, <<>>))
        \o all(publish(t3, <<"Keymaster", "URLS", "AsConfigured", "State">>, TRUE, 0, <<>>))
        \o all(publish(t3, <<"Keymaster", "URLS", "AsConfigured", "Pub">>, TRUE, 0, <<>>))

\* the last k of them, which the publisher has not sent yet
StartupQueue(k) ==
    SubSeq(StartupMessages, Len(StartupMessages) - k + 1, Len(StartupMessages))

Init ==
    /\ root \in {StartupTree(c) : c \in ConfigDocs}
    /\ data_queue \in {StartupQueue(k) : k \in {0, QueueCap - 1}}
    /\ sm_pending = <<>>
    /\ reply = NoReply
    /\ lastReq = [n |-> 0, frames |-> <<"none">>]
    /\ lastMut = [n |-> 0, frames |-> <<"none">>]
    /\ putlog = {}
    /\ run_pc = "publish"
    /\ callbacks = [c \in Clients |-> {}]
    /\ filters = [c \in Clients |-> [k \in {} |-> 0]]
    /\ inbox = [c \in Clients |-> <<>>]
    /\ cb_log = [c \in Clients |-> <<>>]
    /\ dropped = {}
    /\ unsubbed = {}
    /\ nsub = 0
    /\ RestInit

\* state_manager_task: one pass of the poll loop with a request on state_sock
SMServe(frames) ==
    /\ sm_pending = <<>>
    /\ LET tag == lastReq.n + 1
           out == handle_request(frames, root, data_queue, tag)
       IN  /\ root' = out.tree
           /\ data_queue' = out.q
           /\ sm_pending' = out.pend
           /\ reply' = out.reply
           /\ lastReq' = [n |-> tag, frames |-> frames]
           /\ lastMut' = IF frames[1] \in {"PUT", "DEL"} /\ out.reply.result
                         THEN [n |-> tag, frames |-> frames]
                         ELSE lastMut
           /\ putlog' = IF frames[1] = "PUT" /\ out.reply.result
                        THEN putlog \cup
                             {[n |-> tag, frames |-> frames,
                               room |-> Len(data_queue) + Len(frames[2]) <= QueueCap,
                               subs |-> CurrentSubs]}
                        ELSE putlog
    /\ UNCHANGED <<nonkm, run_pc, callbacks, filters, inbox, cb_log, dropped, unsubbed, nsub>>

\* state_manager_task blocked in _data_queue.put(): the queue has room again
SMBlockedPut ==
    /\ sm_pending # <<>>
    /\ Len(data_queue) < QueueCap
    /\ data_queue' = Append(data_queue, Head(sm_pending))
    /\ sm_pending' = Tail(sm_pending)
    /\ UNCHANGED <<nonkm, root, reply, lastReq, lastMut, putlog, run_pc,
                   callbacks, filters, inbox, cb_log, dropped, unsubbed, nsub>>

\* run(): publish("Root", true), made by the thread that called run()
RunPublish ==
    /\ run_pc = "publish"
    /\ LET st == publish(root, RootKey, TRUE, 0, data_queue)
       IN  /\ st.pend = <<>>          \* otherwise blocked in _data_queue.put()
           /\ data_queue' = st.q
    /\ run_pc' = "done"
    /\ UNCHANGED <<nonkm, root, sm_pending, reply, lastReq, lastMut, putlog,
                   callbacks, filters, inbox, cb_log, dropped, unsubbed, nsub>>

\* a server_task that takes the newest data_package first
ServerSend_newest ==
    /\ data_queue # <<>>
    /\ LET dp   == data_queue[Len(data_queue)]
           to   == {c \in Clients : Matches(c, dp.key)}
           full == {c \in to : Len(inbox[c]) >= SubHWM}
       IN  /\ inbox' = [c \in Clients |->
                           IF c \in to \ full THEN Append(inbox[c], dp) ELSE inbox[c]]
           /\ dropped' = dropped \cup {<<c, dp.tag, dp.key>> : c \in full}
    /\ data_queue' = SubSeq(data_queue, 1, Len(data_queue) - 1)
    /\ UNCHANGED <<nonkm, root, sm_pending, reply, lastReq, lastMut, putlog, run_pc,
                   callbacks, filters, cb_log, unsubbed, nsub>>

\* server_task: one pass of the loop, _data_queue.get and the two z_send
ServerSend ==
    /\ data_queue # <<>>
    /\ LET dp   == Head(data_queue)
           to   == {c \in Clients : Matches(c, dp.key)}
           full == {c \in to : Len(inbox[c]) >= SubHWM}
       IN  /\ inbox' = [c \in Clients |->
                           IF c \in to \ full THEN Append(inbox[c], dp) ELSE inbox[c]]
           /\ dropped' = dropped \cup {<<c, dp.tag, dp.key>> : c \in full}
    /\ data_queue' = Tail(data_queue)
    /\ UNCHANGED <<nonkm, root, sm_pending, reply, lastReq, lastMut, putlog, run_pc,
                   callbacks, filters, cb_log, unsubbed, nsub>>

\* the callback is recorded, the socket option is not set
Subscribe_nofilter(c, k) ==
    /\ nsub < MaxSubOps
    /\ callbacks' = [callbacks EXCEPT ![c] = @ \cup {SubKey(k)}]
    /\ nsub' = nsub + 1
    /\ UNCHANGED <<nonkm, root, data_queue, sm_pending, reply, lastReq, lastMut, putlog, run_pc,
                   filters, inbox, cb_log, dropped, unsubbed>>

\* _subscriber_task: a SUBSCRIBE request on the control pipe
Subscribe(c, k) ==
    /\ nsub < MaxSubOps
    /\ LET key == SubKey(k)
       IN  /\ callbacks' = [callbacks EXCEPT ![c] = @ \cup {key}]
           /\ filters' = [filters EXCEPT ![c] =
                  [f \in DOMAIN @ \cup {key} |->
                      IF f \in DOMAIN @ THEN (IF f = key THEN @[f] + 1 ELSE @[f]) ELSE 1]]
    /\ nsub' = nsub + 1
    /\ UNCHANGED <<nonkm, root, data_queue, sm_pending, reply, lastReq, lastMut, putlog, run_pc,
                   inbox, cb_log, dropped, unsubbed>>

\* _subscriber_task: an UNSUBSCRIBE request on the control pipe
Unsubscribe(c, k) ==
    /\ nsub < MaxSubOps
    /\ Matches(c, SubKey(k)) \/ SubKey(k) \in callbacks[c]   \* otherwise nothing changes
    /\ LET key == SubKey(k)
       IN  /\ callbacks' = [callbacks EXCEPT ![c] = @ \ {key}]
           /\ filters' = [filters EXCEPT ![c] =
                  [f \in DOMAIN @ |-> IF f = key /\ @[f] > 0 THEN @[f] - 1 ELSE @[f]]]
           /\ unsubbed' = unsubbed \cup {<<c, key>>}
    /\ nsub' = nsub + 1
    /\ UNCHANGED <<nonkm, root, data_queue, sm_pending, reply, lastReq, lastMut, putlog, run_pc,
                   inbox, cb_log, dropped>>

\* the callback is looked up by prefix, as the socket filters
SubscriberRecv_prefix(c) ==
    /\ inbox[c] # <<>>
    /\ LET m == Head(inbox[c])
       IN  cb_log' = IF \E k \in callbacks[c] : IsPrefix(k, m.key)
                     THEN [cb_log EXCEPT ![c] =
                              Append(@, [key |-> m.key, node |-> Load(m.val), tag |-> m.tag])]
                     ELSE cb_log
    /\ inbox' = [inbox EXCEPT ![c] = Tail(@)]
    /\ UNCHANGED <<nonkm, root, data_queue, sm_pending, reply, lastReq, lastMut, putlog, run_pc,
                   callbacks, filters, dropped, unsubbed, nsub>>

\* _subscriber_task: a published message on sub_sock
SubscriberRecv(c) ==
    /\ inbox[c] # <<>>
    /\ LET m == Head(inbox[c])
       IN  cb_log' = IF m.key \in callbacks[c]
                     THEN [cb_log EXCEPT ![c] =
                              Append(@, [key |-> m.key, node |-> Load(m.val), tag |-> m.tag])]
                     ELSE cb_log
    /\ inbox' = [inbox EXCEPT ![c] = Tail(@)]
    /\ UNCHANGED <<nonkm, root, data_queue, sm_pending, reply, lastReq, lastMut, putlog, run_pc,
                   callbacks, filters, dropped, unsubbed, nsub>>

\* the server alone: every kind of request, no subscriber
NextSM ==
    \/ \E frames \in Requests : lastReq.n < MaxReq /\ SMServe(frames)
    \/ SMBlockedPut
    \/ RunPublish
    \/ ServerSend

SpecSM == Init /\ [][NextSM]_vars

\* the server and its subscribers: the requests that change the tree
PubSubRequests ==
    {<<"PUT", p, Emit(Scalar("42")), "create">> : p \in {<<"foo", "bar">>, <<"foo", "bar", "baz">>}}
    \cup {<<"PUT", RootKey, Emit(UserConfig)>>, <<"DEL", <<"foo", "bar", "baz">>>>}

NextPS ==
    \/ \E frames \in PubSubRequests : lastReq.n < MaxPubReq /\ SMServe(frames)
    \/ SMBlockedPut
    \/ RunPublish
    \/ ServerSend
    \/ \E c \in Clients, k \in SubKeys : Subscribe(c, k)
    \/ \E c \in Clients, k \in SubKeys : Unsubscribe(c, k)
    \/ \E c \in Clients : SubscriberRecv(c)

SpecPS == Init /\ [][NextPS]_vars

----------------------------------------------------------------------------
(* The consumers of the transport registries *)

\* ZMQTransportServer::ZMQTransportServer: km.put(_transport_key +
\* ".AsConfigured", urns, true) with the URLs of the new instance
ZMQTransportServer_ctor(store, key, inst) == [store EXCEPT ![key] = inst]

\* ZMQTransportServer::~ZMQTransportServer: km.del(_transport_key + ".AsConfigured")
ZMQTransportServer_dtor(store, key) == [store EXCEPT ![key] = NullPtr]

\* the consumers that have taken a handle for the key and not yet released it
Engaged(side, key) ==
    {c \in Consumers : handle[c].pc # "idle" /\ handle[c].side = side /\ handle[c].key = key}

\* the instances consumers hold for the key
Held(side, key) ==
    {handle[c].inst : c \in {d \in Engaged(side, key) : handle[d].inst # NullPtr}}

Entries ==
    {TS_entry(ts_transports, k) : k \in ServerKeys} \cup {TC_entry(tc_transports, u) : u \in Urns}

\* shared_ptr::use_count() of an instance
use_count(inst) ==
    Cardinality({c \in Consumers : handle[c].inst = inst}) + (IF inst \in Entries THEN 1 ELSE 0)

Call(op, c, side, key, r, entry) ==
    [op |-> op, who |-> c, side |-> side, key |-> key, threw |-> r.threw, inst |-> r.inst,
     built |-> r.built, engaged |-> Engaged(side, key), holders |-> Held(side, key),
     entry |-> entry, released |-> released[<<side, key>>]]

\* what a call of get_transport does to the consumer and to the history
Got(c, side, key, r, entry) ==
    /\ handle' = IF r.threw THEN handle
                 ELSE [handle EXCEPT ![c] = [pc |-> "holding", side |-> side,
                                            key |-> key, inst |-> r.inst]]
    /\ alive' = IF r.built THEN alive \cup {r.inst} ELSE alive
    /\ next_inst' = IF r.built THEN r.inst ELSE next_inst
    /\ since_release' = [since_release EXCEPT ![<<side, key>>] =
                            IF r.threw \/ r.inst = NullPtr THEN @ ELSE @ \cup {r.inst}]
    /\ released' = [released EXCEPT ![<<side, key>>] = 0]
    /\ tr_last' = Call("get", c, side, key, r, entry)
    /\ ts_configured' = IF side = "server" /\ r.built
                        THEN ZMQTransportServer_ctor(ts_configured, key, r.inst)
                        ELSE ts_configured

\* a consumer calls TransportServer::get_transport
TSGet(c, key, slot_first) ==
    /\ handle[c].pc = "idle"
    /\ next_inst < MaxInst
    /\ LET r == TS_get_transport(ts_transports, key, next_inst + 1, slot_first)
       IN  /\ ts_transports' = r.reg
           /\ Got(c, "server", key, r, TS_entry(ts_transports, key))
    /\ UNCHANGED <<nontr, tc_transports>>

\* a consumer calls TransportClient::get_transport
TCGet(c, urn, slot_first) ==
    /\ handle[c].pc = "idle"
    /\ next_inst < MaxInst
    /\ LET r == TC_get_transport(tc_transports, urn, next_inst + 1, slot_first)
       IN  /\ tc_transports' = r.reg
           /\ Got(c, "client", urn, r, TC_entry(tc_transports, urn))
    /\ UNCHANGED <<nontr, ts_transports>>

\* a consumer resets its shared_ptr
Drop(c) ==
    /\ handle[c].pc = "holding"
    /\ LET h == handle[c]
       IN  /\ alive' = IF h.inst # NullPtr /\ use_count(h.inst) = 1
                       THEN alive \ {h.inst} ELSE alive
           /\ ts_configured' = IF h.inst # NullPtr /\ use_count(h.inst) = 1 /\ h.side = "server"
                               THEN ZMQTransportServer_dtor(ts_configured, h.key)
                               ELSE ts_configured
           /\ tr_last' = Call("drop", c, h.side, h.key,
                              [threw |-> FALSE, inst |-> h.inst, built |-> FALSE], NoEntry)
           /\ handle' = [handle EXCEPT ![c] = [h EXCEPT !.pc = "dropped", !.inst = NullPtr]]
    /\ UNCHANGED <<nontr, ts_transports, tc_transports, next_inst, since_release, released>>

\* what a call of release_transport does to the consumer and to the history
Let_go(c, side, key, r, entry) ==
    /\ alive' = alive \ r.freed
    /\ ts_configured' = IF r.freed # {} /\ side = "server"
                        THEN ZMQTransportServer_dtor(ts_configured, key)
                        ELSE ts_configured
    /\ handle' = [handle EXCEPT ![c] = Idle]
    /\ since_release' = [since_release EXCEPT ![<<side, key>>] = {}]
    /\ released' = [released EXCEPT ![<<side, key>>] = @ + 1]
    /\ tr_last' = Call("release", c, side, key,
                       [threw |-> FALSE, inst |-> NullPtr, built |-> FALSE], entry)
    /\ UNCHANGED next_inst

\* a consumer that has reset its shared_ptr calls TransportServer::release_transport
TSRelease(c) ==
    /\ handle[c].pc = "dropped"
    /\ handle[c].side = "server"
    /\ LET key   == handle[c].key
           entry == TS_entry(ts_transports, key)
           r     == TS_release_transport(ts_transports, key, use_count(entry))
       IN  /\ ts_transports' = r.reg
           /\ Let_go(c, "server", key, r, entry)
    /\ UNCHANGED <<nontr, tc_transports>>

\* a consumer that has reset its shared_ptr calls TransportClient::release_transport
TCRelease(c) ==
    /\ handle[c].pc = "dropped"
    /\ handle[c].side = "client"
    /\ LET urn   == handle[c].key
           entry == TC_entry(tc_transports, urn)
           r     == TC_release_transport(tc_transports, urn, use_count(entry))
       IN  /\ tc_transports' = r.reg
           /\ Let_go(c, "client", urn, r, entry)
    /\ UNCHANGED <<nontr, ts_transports>>

\* a Keymaster server that has started and serves no request
KMIdle ==
    /\ root = StartupTree(MinimalConfig)
    /\ data_queue = <<>>
    /\ sm_pending = <<>>
    /\ reply = NoReply
    /\ lastReq = [n |-> 0, frames |-> <<"none">>]
    /\ lastMut = [n |-> 0, frames |-> <<"none">>]
    /\ putlog = {}
    /\ run_pc = "done"
    /\ callbacks = [c \in Clients |-> {}]
    /\ filters = [c \in Clients |-> [k \in {} |-> 0]]
    /\ inbox = [c \in Clients |-> <<>>]
    /\ cb_log = [c \in Clients |-> <<>>]
    /\ dropped = {}
    /\ unsubbed = {}
    /\ nsub = 0

\* the registries at work beside a Keymaster server that serves no request
InitTR ==
    /\ KMIdle
    /\ RestInit

NextTR ==
    \/ \E c \in Consumers, key \in ServerKeys, slot_first \in BOOLEAN : TSGet(c, key, slot_first)
    \/ \E c \in Consumers, urn \in Urns, slot_first \in BOOLEAN : TCGet(c, urn, slot_first)
    \/ \E c \in Consumers : Drop(c)
    \/ \E c \in Consumers : TSRelease(c)
    \/ \E c \in Consumers : TCRelease(c)

SpecTR == InitTR /\ [][NextTR]_vars

----------------------------------------------------------------------------
(* Transports: TransportServer::create, TransportClient::create and the
   construction of a ZMQTransportServer *)

Hostname == "host.example"    \* what getCanonicalHostname or gethostname gives

\* what a configuration may list under Specified
SpecEntries ==
    {"tcp", "inproc", "rtinproc", "udp", "tcp://*", "inproc://matrix.X.XXXXX"}

\* the URNs a client may be created for
ClientUrns == {"inproc://matrix.X.a4sLv", "tcp://host.example:52016", "udp://host.example:52016"}

\* the part before the first ':'
SchemeOf(e) ==
    CASE e \in {"tcp", "tcp://*", "tcp://host.example:52016"} -> "tcp"
      [] e \in {"inproc", "inproc://matrix.X.XXXXX", "inproc://matrix.X.a4sLv"} -> "inproc"
      [] e = "rtinproc" -> "rtinproc"
      [] OTHER -> "udp"

SpecLists == UNION {[1..n -> SpecEntries] : n \in 0..MaxSpec}

\* TransportServer::create on a Specified list: "CreationError", the name
\* of the factory it calls, or "undefined" where it takes front() of an
\* empty vector
TS_create_of(transports) ==
    LET facts == SelectSeq(transports, LAMBDA s : s \in DOMAIN ServerFactories)
    IN  IF Len(transports) # Len(facts) THEN "CreationError"
        ELSE IF facts = <<>> THEN "undefined"
        ELSE IF \E i \in 1..Len(facts) : ServerFactories[facts[i]] # ServerFactories[facts[1]]
        THEN "CreationError"
        ELSE ServerFactories[facts[1]]

\* TransportClient::create on a URN
TC_create_of(urn) ==
    IF SchemeOf(urn) \in DOMAIN ClientFactories
    THEN ClientFactories[SchemeOf(urn)] ELSE "CreationError"

\* a URL: scheme, host and what follows
Url(scheme, host, rest) == [scheme |-> scheme, host |-> host, rest |-> rest]

NoUrl == Url("", "", "")

\* the port an ephemeral bind gets
EphemeralPort == "52016"

\* process_zmq_urn: the URL to bind for a transport or a partial URL, the
\* empty string for what it cannot use
process_zmq_urn(e) ==
    CASE e \in {"tcp", "tcp://*"} -> Url("tcp", "*", "XXXXX")
      [] e = "inproc" -> Url("inproc", "", "a4sLvQ")
      [] e = "inproc://matrix.X.XXXXX" -> Url("inproc", "", "matrix.X.a4sLv")
      [] OTHER -> NoUrl

\* what the steps of a creation leave alone
CRFrame == UNCHANGED <<noncr, cr_side, cr_spec>>

\* TransportServer::create, up to the call of the factory
CrServerCreate(ub) ==
    /\ cr_side = "server"
    /\ cr_pc = "create"
    /\ LET r == TS_create_of(cr_spec)
       IN  /\ cr_pc' = CASE r = "CreationError" -> "CreationError"
                         [] r = "undefined" -> ub
                         [] r = "ZMQTransportServer" -> "process"
                         [] OTHER -> "built"
           /\ cr_factory' = IF r \in {"CreationError", "undefined"} THEN "none" ELSE r
    /\ UNCHANGED <<cr_urls, cr_i, cr_fault, cr_asconf>>
    /\ CRFrame

\* TransportClient::create
CrClientCreate ==
    /\ cr_side = "client"
    /\ cr_pc = "create"
    /\ LET r == TC_create_of(cr_spec[1])
       IN  /\ cr_pc' = IF r = "CreationError" THEN "CreationError" ELSE "built"
           /\ cr_factory' = IF r = "CreationError" THEN "none" ELSE r
    /\ UNCHANGED <<cr_urls, cr_i, cr_fault, cr_asconf>>
    /\ CRFrame

\* PubImpl::PubImpl: the URNs processed
CrProcess ==
    /\ cr_pc = "process"
    /\ LET urls == [i \in DOMAIN cr_spec |-> process_zmq_urn(cr_spec[i])]
       IN  /\ cr_urls' = urls
           /\ IF \E i \in DOMAIN urls : urls[i] = NoUrl
              THEN cr_pc' = "CreationError" /\ cr_i' = 0
              ELSE cr_pc' = "bind" /\ cr_i' = 1
    /\ UNCHANGED <<cr_factory, cr_fault, cr_asconf>>
    /\ CRFrame

\* PubImpl::PubImpl: one pass of the loop that binds. The constructor
\* returns when getCanonicalHostname fails and when a bind throws
\* zmq::error_t
CrBind(host_ok, bound) ==
    /\ cr_pc = "bind"
    /\ IF cr_i > Len(cr_urls)
       THEN /\ cr_pc' = "put"
            /\ UNCHANGED <<cr_urls, cr_i, cr_fault>>
       ELSE IF cr_urls[cr_i].scheme = "tcp" /\ ~host_ok
       THEN /\ cr_fault' = "hostname"
            /\ cr_pc' = "put"
            /\ UNCHANGED <<cr_urls, cr_i>>
       ELSE IF ~bound
       THEN /\ cr_fault' = "bind"
            /\ cr_pc' = "put"
            /\ UNCHANGED <<cr_urls, cr_i>>
       ELSE /\ cr_urls' = [cr_urls EXCEPT ![cr_i] =
                              IF @.scheme = "tcp" THEN Url("tcp", Hostname, EphemeralPort) ELSE @]
            /\ cr_i' = cr_i + 1
            /\ UNCHANGED <<cr_pc, cr_fault>>
    /\ UNCHANGED <<cr_factory, cr_asconf>>
    /\ CRFrame

\* ZMQTransportServer::ZMQTransportServer: km.put of the AsConfigured list;
\* the value put() returns is not looked at
CrPut(stored) ==
    /\ cr_pc = "put"
    /\ cr_asconf' = IF stored THEN cr_urls ELSE cr_asconf
    /\ cr_pc' = "built"
    /\ UNCHANGED <<cr_factory, cr_urls, cr_i, cr_fault>>
    /\ CRFrame

\* a transport is asked for, beside a Keymaster server that serves nothing else
InitCR ==
    /\ KMIdle
    /\ TRInit
    /\ FSMInit
    /\ DPInit
    /\ RPCInit
    /\ BootDone
    /\ LifeInit
    /\ TCInit
    /\ SBInit
    /\ RCInit
    /\ SVInit
    /\ KSInit
    /\ DDInit
    /\ cr_side \in {"server", "client"}
    /\ cr_spec \in IF cr_side = "server" THEN SpecLists ELSE {<<u>> : u \in ClientUrns}
    /\ cr_pc = "create"
    /\ cr_factory = "none"
    /\ cr_urls = <<>>
    /\ cr_i = 0
    /\ cr_fault = "none"
    /\ cr_asconf = <<>>

NextCR ==
    \/ CrServerCreate("crashed") \/ CrServerCreate("built")
    \/ CrClientCreate
    \/ CrProcess
    \/ \E host_ok, bound \in BOOLEAN : CrBind(host_ok, bound)
    \/ CrPut(TRUE) \/ CrPut(FALSE)

SpecCR == InitCR /\ [][NextCR]_vars

----------------------------------------------------------------------------
(* Keymaster client: rpc, the call of a service through the store *)

\* the keys of the services called
RpcKeys == {"svc.a", "svc.b"}

\* key + ".request" and key + ".reply"
send_key(key) == <<key, "request">>

reply_key(key) == <<key, "reply">>

RCFrame == UNCHANGED <<nonrc>>

\* rpc is called: reply(false), a new KeymasterRPCCB
RcCall(key, to) ==
    /\ rc_pc \in {"idle", "returned", "thrown"}
    /\ rc_calls < MaxCalls
    /\ rc_calls' = rc_calls + 1
    /\ rc_pc' = "subscribe"
    /\ rc_key' = key
    /\ rc_to' = to
    /\ rc_waited' = 0
    /\ rc_request' = FALSE
    /\ rc_served' = FALSE
    /\ rc_cb' = FALSE
    /\ rc_reply' = "failed"
    /\ rc_trace' = <<>>
    /\ UNCHANGED rc_callbacks
    /\ RCFrame

\* subscribe(reply_key, &cb): true when the worker has taken the key, false
\* when the publishing URLs cannot be had, and the runtime_error of _run
\* when the worker does not start
RcSubscribe(outcome) ==
    /\ rc_pc = "subscribe"
    /\ CASE outcome = "true" ->
              /\ rc_callbacks' = rc_callbacks \cup {reply_key(rc_key)}
              /\ rc_trace' = Append(rc_trace, "subscribe")
              /\ rc_pc' = "put"
         [] outcome = "false" ->
              /\ rc_pc' = "returned"
              /\ UNCHANGED <<rc_callbacks, rc_trace>>
         [] OTHER ->
              /\ rc_pc' = "thrown"
              /\ UNCHANGED <<rc_callbacks, rc_trace>>
    /\ UNCHANGED <<rc_key, rc_to, rc_waited, rc_request, rc_served, rc_cb, rc_reply, rc_calls>>
    /\ RCFrame

\* a variant that returns at once when the put fails
RcPut_leave(ok) ==
    /\ rc_pc = "put"
    /\ IF ok
       THEN /\ rc_request' = TRUE
            /\ rc_trace' = Append(rc_trace, "put")
            /\ rc_pc' = "wait"
       ELSE /\ rc_pc' = "returned"
            /\ UNCHANGED <<rc_request, rc_trace>>
    /\ UNCHANGED <<rc_key, rc_to, rc_waited, rc_callbacks, rc_served, rc_cb, rc_reply, rc_calls>>
    /\ RCFrame

\* put(send_key, params)
RcPut(ok) ==
    /\ rc_pc = "put"
    /\ IF ok
       THEN /\ rc_request' = TRUE
            /\ rc_trace' = Append(rc_trace, "put")
            /\ rc_pc' = "wait"
       ELSE /\ rc_pc' = "unsubscribe"
            /\ UNCHANGED <<rc_request, rc_trace>>
    /\ UNCHANGED <<rc_key, rc_to, rc_waited, rc_callbacks, rc_served, rc_cb, rc_reply, rc_calls>>
    /\ RCFrame

\* time passes in cb.rval(to_ns)
RcTick ==
    /\ rc_pc = "wait"
    /\ ~rc_cb
    /\ rc_waited < rc_to
    /\ rc_waited' = rc_waited + 1
    /\ UNCHANGED <<rc_pc, rc_key, rc_to, rc_callbacks, rc_request, rc_served, rc_cb, rc_reply, rc_trace, rc_calls>>
    /\ RCFrame

\* the service writes <key>.reply; the worker of the client calls the
\* callback when the key is among its subscriptions
RcService ==
    /\ rc_request
    /\ ~rc_served
    /\ rc_served' = TRUE
    /\ IF reply_key(rc_key) \in rc_callbacks
       THEN /\ rc_cb' = TRUE
            /\ rc_trace' = Append(rc_trace, "deliver")
       ELSE UNCHANGED <<rc_cb, rc_trace>>
    /\ UNCHANGED <<rc_pc, rc_key, rc_to, rc_waited, rc_callbacks, rc_request, rc_reply, rc_calls>>
    /\ RCFrame

\* cb.rval(to_ns) returns: the reply, or a failed result when the time is up
RcWake ==
    /\ rc_pc = "wait"
    /\ rc_cb \/ rc_waited = rc_to
    /\ rc_reply' = IF rc_cb THEN "ok" ELSE "failed"
    /\ rc_trace' = Append(rc_trace, "woke")
    /\ rc_pc' = "unsubscribe"
    /\ UNCHANGED <<rc_key, rc_to, rc_waited, rc_callbacks, rc_request, rc_served, rc_cb, rc_calls>>
    /\ RCFrame

\* unsubscribe(reply_key), and the return of rpc
RcUnsubscribe ==
    /\ rc_pc = "unsubscribe"
    /\ rc_callbacks' = rc_callbacks \ {reply_key(rc_key)}
    /\ rc_trace' = Append(rc_trace, "unsubscribe")
    /\ rc_pc' = "returned"
    /\ UNCHANGED <<rc_key, rc_to, rc_waited, rc_request, rc_served, rc_cb, rc_reply, rc_calls>>
    /\ RCFrame

\* a client that calls services, beside a Keymaster server that serves nothing else
InitRC ==
    /\ KMIdle
    /\ TRInit
    /\ FSMInit
    /\ DPInit
    /\ RPCInit
    /\ BootDone
    /\ LifeInit
    /\ TCInit
    /\ SBInit
    /\ CRInit
    /\ RCInit
    /\ SVInit
    /\ KSInit
    /\ DDInit

NextRC ==
    \/ \E key \in RpcKeys, to \in 1..MaxTimeout : RcCall(key, to)
    \/ \E outcome \in {"true", "false", "thrown"} : RcSubscribe(outcome)
    \/ RcPut(TRUE) \/ RcPut(FALSE)
    \/ RcTick
    \/ RcService
    \/ RcWake
    \/ RcUnsubscribe

SpecRC == InitRC /\ [][NextRC]_vars

----------------------------------------------------------------------------
(* Components and the Architect (spec 4.E) *)

\* an FSM in which Start is also taken in Standby
Transition_eager(state, event, ok) ==
    IF event = "Start" /\ ok THEN "Running"
    ELSE IF state = "Standby" /\ event = "Initialize" /\ ok THEN "Ready"
    ELSE IF state = "Running" /\ event = "Stop" THEN "Ready"
    ELSE IF state = "Ready" /\ event = "Stand_down" THEN "Standby"
    ELSE state

\* the shared FSM of every Component: the state an event leads to. ok tells
\* whether the Component's own work for the event succeeds.
Transition(state, event, ok) ==
    IF state = "Standby" /\ event = "Initialize" /\ ok THEN "Ready"
    ELSE IF state = "Ready" /\ event = "Start" /\ ok THEN "Running"
    ELSE IF state = "Running" /\ event = "Stop" THEN "Ready"
    ELSE IF state = "Ready" /\ event = "Stand_down" THEN "Standby"
    ELSE state

\* a lifecycle event is written to the control path all Components subscribe to
Broadcast(e) ==
    /\ nbcast < MaxEvents
    /\ nbcast' = nbcast + 1
    /\ comp_events' = [c \in Components |-> Append(comp_events[c], e)]

\* any client writes an event to the control path
Controller(e) ==
    /\ Broadcast(e)
    /\ UNCHANGED <<nonfsm, comp_state, arch_phase, fsm_last>>

\* a Component handles the next event published to it
Handle(c, ok) ==
    /\ comp_events[c] # <<>>
    /\ LET e  == Head(comp_events[c])
           to == Transition(comp_state[c], e, ok)
       IN  /\ comp_state' = [comp_state EXCEPT ![c] = to]
           /\ fsm_last' = [comp |-> c, from |-> comp_state[c], event |-> e, to |-> to]
    /\ comp_events' = [comp_events EXCEPT ![c] = Tail(@)]
    /\ UNCHANGED <<nonfsm, arch_phase, nbcast>>

InitFSM ==
    /\ KMIdle
    /\ RestInit

NextFSM ==
    \/ \E e \in Events : Controller(e)
    \/ \E c \in Components, ok \in BOOLEAN : Handle(c, ok)

SpecFSM == InitFSM /\ [][NextFSM]_vars

AllIn(state) == \A c \in Components : comp_state[c] = state /\ comp_events[c] = <<>>

Settled == \A c \in Components : comp_events[c] = <<>>

\* Architect: broadcast Initialize to the components it has created
ArchInitialize ==
    /\ arch_phase = "down"
    /\ Broadcast("Initialize")
    /\ arch_phase' = "init_wait"
    /\ UNCHANGED <<nonfsm, comp_state, fsm_last>>

\* Architect: every component has reported; all are Ready, or some failed
\* Initialize and the Architect issues Stand_down to the rest
ArchInitialized ==
    /\ arch_phase = "init_wait"
    /\ Settled
    /\ IF AllIn("Ready")
       THEN arch_phase' = "ready" /\ UNCHANGED comp_events
       ELSE /\ arch_phase' = "standdown_wait"
            /\ comp_events' = [c \in Components |->
                                  IF comp_state[c] = "Ready" THEN <<"Stand_down">> ELSE <<>>]
    /\ UNCHANGED <<nonfsm, comp_state, nbcast, fsm_last>>

\* a Start that does not wait for the components to be Ready
ArchStart_nowait ==
    /\ arch_phase \in {"ready", "init_wait"}
    /\ Broadcast("Start")
    /\ arch_phase' = "start_wait"
    /\ UNCHANGED <<nonfsm, comp_state, fsm_last>>

\* Architect: broadcast Start once every component is Ready
ArchStart ==
    /\ arch_phase = "ready"
    /\ AllIn("Ready")
    /\ Broadcast("Start")
    /\ arch_phase' = "start_wait"
    /\ UNCHANGED <<nonfsm, comp_state, fsm_last>>

\* Architect: every component has handled Start; a failed Start is reported
\* and the started peers keep running
ArchStarted ==
    /\ arch_phase = "start_wait"
    /\ Settled
    /\ arch_phase' = "running"
    /\ UNCHANGED <<nonfsm, comp_state, comp_events, nbcast, fsm_last>>

\* Architect: broadcast Stop
ArchStop ==
    /\ arch_phase = "running"
    /\ Broadcast("Stop")
    /\ arch_phase' = "stop_wait"
    /\ UNCHANGED <<nonfsm, comp_state, fsm_last>>

\* Architect: every component is back in Ready
ArchStopped ==
    /\ arch_phase = "stop_wait"
    /\ AllIn("Ready")
    /\ arch_phase' = "ready"
    /\ UNCHANGED <<nonfsm, comp_state, comp_events, nbcast, fsm_last>>

\* Architect: broadcast Stand_down once every component is Ready
ArchStandDown ==
    /\ arch_phase = "ready"
    /\ AllIn("Ready")
    /\ Broadcast("Stand_down")
    /\ arch_phase' = "standdown_wait"
    /\ UNCHANGED <<nonfsm, comp_state, fsm_last>>

\* Architect: every component is in Standby again
ArchStoodDown ==
    /\ arch_phase = "standdown_wait"
    /\ AllIn("Standby")
    /\ arch_phase' = "down"
    /\ UNCHANGED <<nonfsm, comp_state, comp_events, nbcast, fsm_last>>

NextARCH ==
    \/ ArchInitialize
    \/ ArchInitialized
    \/ ArchStart
    \/ ArchStarted
    \/ ArchStop
    \/ ArchStopped
    \/ ArchStandDown
    \/ ArchStoodDown
    \/ \E c \in Components, ok \in BOOLEAN : Handle(c, ok)

SpecARCH == InitFSM /\ [][NextARCH]_vars

----------------------------------------------------------------------------
(* Keymaster client: put_nb and the deferred put thread *)

PutKeys == {"comp.status", "comp.count"}

PutMessages == {"v", "w"}

\* tsemfifo::put_no_block and tsemfifo::timed_get on a fifo with room
put_no_block(q, x) == Append(q, x)

timed_get(q) == [item |-> Head(q), rest |-> Tail(q)]

\* a _put_task that never replaces a memoized value
put_task_pass_first(m, create, state) ==
    IF state.key \in DOMAIN m
    THEN IF m[state.key] = state.msg
         THEN [memo |-> m, create |-> create, put |-> FALSE]
         ELSE [memo |-> m, create |-> FALSE, put |-> TRUE]
    ELSE [memo |-> Put(m, state.key, state.msg),
          create |-> IF state.create THEN TRUE ELSE create, put |-> TRUE]

\* _put_task: the body of the loop for one tuple taken from _put_fifo.
\* create is the local variable, which keeps its value between passes.
put_task_pass(m, create, state) ==
    IF state.key \in DOMAIN m /\ m[state.key] = state.msg
    THEN [memo |-> m, create |-> create, put |-> FALSE]
    ELSE [memo   |-> Put(m, state.key, state.msg),
          create |-> IF state.key \in DOMAIN m THEN FALSE
                     ELSE IF state.create THEN TRUE ELSE create,
          put    |-> TRUE]

\* Keymaster::put_nb
PutNb(key, msg, create) ==
    /\ nputnb < MaxPutNb
    /\ nputnb' = nputnb + 1
    /\ put_fifo' = put_no_block(put_fifo, [key |-> key, msg |-> msg, create |-> create])
    /\ UNCHANGED <<nondp, memo, pt_create, put_rpcs, seen>>

\* Keymaster::_put_task: one pass of the loop with a tuple in _put_fifo; ok
\* is what put() returns, which the loop does not look at
PutTask(ok) ==
    /\ put_fifo # <<>>
    /\ LET g == timed_get(put_fifo)
           r == put_task_pass(memo, pt_create, g.item)
       IN  /\ put_fifo' = g.rest
           /\ memo' = r.memo
           /\ pt_create' = r.create
           /\ put_rpcs' = IF r.put
                          THEN Append(put_rpcs, [key |-> g.item.key, msg |-> g.item.msg,
                                                 create |-> r.create, ok |-> ok])
                          ELSE put_rpcs
           /\ seen' = Put(seen, g.item.key, g.item.msg)
    /\ UNCHANGED <<nondp, nputnb>>

InitDP ==
    /\ KMIdle
    /\ RestInit

NextDP ==
    \/ \E key \in PutKeys, msg \in PutMessages, create \in BOOLEAN : PutNb(key, msg, create)
    \/ \E ok \in BOOLEAN : PutTask(ok)

SpecDP == InitDP /\ [][NextDP]_vars

----------------------------------------------------------------------------
(* Keymaster client: the RPC to the server *)

\* the frames get, put and del hand to _call_keymaster
CallFrames == {<<"GET", "foo.bar">>, <<"DEL", "foo.bar">>, <<"PUT", "foo.bar", "42", "create">>}

\* ~ThreadLock: the mutex is unlocked if this ThreadLock locked it
ThreadLock_release(m, t) == IF m = t THEN "free" ELSE m

\* what a call returns with, and leaves behind
Return(t, result, cause) ==
    /\ caller' = [caller EXCEPT ![t] = [NotCalling EXCEPT !.res = [result |-> result, cause |-> cause],
                                                         !.call = caller[t].call]]
    /\ shared_lock' = ThreadLock_release(shared_lock, t)

\* a thread calls get, put or del
CallStart(t, frames) ==
    /\ caller[t].pc = "idle"
    /\ ncall < MaxCalls
    /\ ncall' = ncall + 1
    /\ caller' = [caller EXCEPT ![t] = [pc |-> "lock", frames |-> frames, sent |-> 0,
                                        call |-> ncall + 1, res |-> NoResult]]
    /\ UNCHANGED <<nonrpc, shared_lock, km_sock, wire>>

\* a _call_keymaster that goes on without the mutex
Lock_free(t) ==
    /\ caller[t].pc = "lock"
    /\ shared_lock' = t
    /\ caller' = [caller EXCEPT ![t].pc = "socket"]
    /\ UNCHANGED <<nonrpc, km_sock, wire, ncall>>

\* lck.lock()
Lock(t) ==
    /\ caller[t].pc = "lock"
    /\ shared_lock = "free"
    /\ shared_lock' = t
    /\ caller' = [caller EXCEPT ![t].pc = "socket"]
    /\ UNCHANGED <<nonrpc, km_sock, wire, ncall>>

\* _keymaster_socket(): the socket _km_ points to, or a new one that is
\* connected; connect may throw zmq::error_t
KeymasterSocket(t, connects) ==
    /\ caller[t].pc = "socket"
    /\ IF km_sock # "null"
       THEN /\ caller' = [caller EXCEPT ![t].pc = "send"]
            /\ UNCHANGED <<shared_lock, km_sock>>
       ELSE IF connects
       THEN /\ km_sock' = "ready"
            /\ caller' = [caller EXCEPT ![t].pc = "send"]
            /\ UNCHANGED shared_lock
       ELSE /\ km_sock' = "unconnected"
            /\ Return(t, FALSE, "zmq::error_t")
    /\ UNCHANGED <<nonrpc, wire, ncall>>

\* one z_send of the call. how is "sent", "timeout" (z_send throws
\* MatrixException) or "error" (zmq::error_t); a socket that is not
\* connected or still waits for a reply takes no frame.
Send(t, how) ==
    /\ caller[t].pc = "send"
    /\ how = "sent" => km_sock \in {"ready", "sending"}
    /\ LET c == caller[t]
           n == c.sent + 1
       IN  IF how = "sent"
           THEN /\ wire' = Append(wire, [thread |-> t, call |-> c.call, frame |-> c.frames[n]])
                /\ km_sock' = IF n = Len(c.frames) THEN "awaiting" ELSE "sending"
                /\ caller' = [caller EXCEPT ![t].sent = n,
                                            ![t].pc = IF n = Len(c.frames) THEN "recv" ELSE "send"]
                /\ UNCHANGED shared_lock
           ELSE IF how = "timeout"
           THEN \* catch (MatrixException): _handle_keymaster_server_exception
                /\ km_sock' = "null"
                /\ Return(t, FALSE, "MatrixException")
                /\ UNCHANGED wire
           ELSE /\ Return(t, FALSE, "zmq::error_t")
                /\ UNCHANGED <<km_sock, wire>>
    /\ UNCHANGED <<nonrpc, ncall>>

\* z_recv and YAML::Load of the reply. how is "true" or "false" (the
\* result the server replied), "garbled" (YAML::Exception), "timeout"
\* (MatrixException) or "error" (zmq::error_t).
Recv(t, how) ==
    /\ caller[t].pc = "recv"
    /\ IF how \in {"true", "false", "garbled"}
       THEN /\ wire' = Append(wire, [thread |-> t, call |-> caller[t].call, frame |-> "reply"])
            /\ km_sock' = "ready"
            /\ IF how = "garbled" THEN Return(t, FALSE, "YAML::Exception")
               ELSE Return(t, how = "true", "reply")
       ELSE IF how = "timeout"
       THEN /\ km_sock' = "null"
            /\ Return(t, FALSE, "MatrixException")
            /\ UNCHANGED wire
       ELSE /\ Return(t, FALSE, "zmq::error_t")
            /\ UNCHANGED <<km_sock, wire>>
    /\ UNCHANGED <<nonrpc, ncall>>

InitRPC ==
    /\ KMIdle
    /\ RestInit

NextRPC ==
    \/ \E t \in Threads, frames \in CallFrames : CallStart(t, frames)
    \/ \E t \in Threads : Lock(t)
    \/ \E t \in Threads, connects \in BOOLEAN : KeymasterSocket(t, connects)
    \/ \E t \in Threads, how \in {"sent", "timeout", "error"} : Send(t, how)
    \/ \E t \in Threads, how \in {"true", "false", "garbled", "timeout", "error"} : Recv(t, how)

SpecRPC == InitRPC /\ [][NextRPC]_vars

----------------------------------------------------------------------------
(* Keymaster server: KmImpl::KmImpl, setup_urls, bind_server and run() *)

RandomUrl == <<"inproc", "<gen_random_string(20)>">>

\* the URLs a configuration may list in Keymaster.URLS.Initial
InitialChoices ==
    {InprocUrl, TcpUrl, <<"TCP", "*", 42000>>, <<"ipc", "/tmp/matrix.keymaster">>,
     <<"udp", "*", 42000>>}

InitialLists ==
    UNION {[1..n -> InitialChoices] : n \in 1..MaxUrls}

\* transform(..., ::tolower)
ToLower(url) ==
    [url EXCEPT ![1] = IF @ = "TCP" THEN "tcp" ELSE @]

Recognized(lc) == lc[1] \in {"tcp", "ipc", "inproc"}

\* the publisher URL setup_urls pairs with a state URL
PublisherUrl(lc) ==
    IF lc[1] = "tcp" THEN <<"tcp", "*", lc[3] + 1>>
    ELSE <<lc[1], lc[2] \o ".publisher">>

HasScheme(urls, scheme) == \E i \in DOMAIN urls : urls[i][1] = scheme

\* a setup_urls that adds no URL for the state service
setup_urls_plain(urls) ==
    LET lcs == [i \in DOMAIN urls |-> ToLower(urls[i])]
    IN  IF \E i \in DOMAIN lcs : ~Recognized(lcs[i])
        THEN [ok |-> FALSE, state |-> <<>>, pub |-> <<>>]
        ELSE [ok |-> TRUE, state |-> lcs, pub |-> [i \in DOMAIN lcs |-> PublisherUrl(lcs[i])]]

\* KmImpl::setup_urls: ok is FALSE when it throws for an unrecognized URL
setup_urls(urls) ==
    LET lcs == [i \in DOMAIN urls |-> ToLower(urls[i])]
    IN  IF \E i \in DOMAIN lcs : ~Recognized(lcs[i])
        THEN [ok |-> FALSE, state |-> <<>>, pub |-> <<>>]
        ELSE [ok    |-> TRUE,
              state |-> IF HasScheme(lcs, "inproc") THEN lcs ELSE Append(lcs, RandomUrl),
              pub   |-> [i \in DOMAIN lcs |-> PublisherUrl(lcs[i])]]

\* KmImpl::bind_server: the first n URLs are bound, and the bind of the
\* next one, if there is one, throws zmq::error_t
bind_server(urls, n) ==
    [ok   |-> n = Len(urls),
     urls |-> [i \in DOMAIN urls |->
                  IF i <= n /\ urls[i][1] = "tcp"
                  THEN <<"tcp", Hostname, urls[i][3]>> ELSE urls[i]]]

\* Thread<T>::running: id stays set after the thread procedure has returned,
\* until a join
Running(thread) == thread # "none"

AsConfiguredState == <<"Keymaster", "URLS", "AsConfigured", "State">>

AsConfiguredPub == <<"Keymaster", "URLS", "AsConfigured", "Pub">>

NotWritten == [State |-> <<>>, Pub |-> <<>>]

\* KeymasterServer::KeymasterServer: KmImpl::KmImpl
Construct(hostname_ok) ==
    /\ run_pc = "new"
    /\ LET r == setup_urls(initial_urls)
       IN  IF r.ok /\ (HasScheme(r.state, "tcp") => hostname_ok)
           THEN /\ state_service_urls' = r.state
                /\ publish_service_urls' = r.pub
                /\ run_pc' = "constructed"
           ELSE /\ run_pc' = "no server"
                /\ UNCHANGED <<state_service_urls, publish_service_urls>>
    /\ UNCHANGED <<nonboot, root, data_queue, sm_pending, reply, lastReq, lastMut, putlog,
                   callbacks, filters, inbox, cb_log, dropped, unsubbed, nsub,
                   initial_urls, server_thread, state_manager_thread, heartbeat_thread,
                   server_thread_ready, state_manager_thread_ready, as_configured, nrun>>

\* what the steps of run() leave alone
RunFrame ==
    UNCHANGED <<nonboot, root, data_queue, sm_pending, reply, lastReq, lastMut, putlog,
                callbacks, filters, inbox, cb_log, dropped, unsubbed, nsub,
                initial_urls, state_service_urls, publish_service_urls,
                server_thread_ready, state_manager_thread_ready, as_configured>>

\* run() is called
RunCall ==
    /\ run_pc \in {"constructed", "done", "threw"}
    /\ nrun < MaxRuns
    /\ nrun' = nrun + 1
    /\ run_pc' = "start_pub"
    /\ UNCHANGED <<server_thread, state_manager_thread, heartbeat_thread>>
    /\ RunFrame

\* run(): _server_thread.start() unless it is running
RunStartPublisher(started) ==
    /\ run_pc = "start_pub"
    /\ IF Running(server_thread)
       THEN run_pc' = "wait_pub" /\ UNCHANGED server_thread
       ELSE IF started
       THEN run_pc' = "wait_pub" /\ server_thread' = "bind"
       ELSE run_pc' = "threw" /\ UNCHANGED server_thread
    /\ UNCHANGED <<state_manager_thread, heartbeat_thread, nrun>>
    /\ RunFrame

\* run(): _server_thread_ready.wait(true, 1000000); it throws on a timeout
RunWaitPublisher ==
    /\ run_pc = "wait_pub"
    /\ run_pc' = IF server_thread_ready THEN "start_sm" ELSE "threw"
    /\ UNCHANGED <<server_thread, state_manager_thread, heartbeat_thread, nrun>>
    /\ RunFrame

\* run(): _state_manager_thread.start() unless it is running
RunStartStateManager(started) ==
    /\ run_pc = "start_sm"
    /\ IF Running(state_manager_thread)
       THEN run_pc' = "start_hb" /\ UNCHANGED state_manager_thread
       ELSE IF started
       THEN run_pc' = "wait_sm" /\ state_manager_thread' = "pipe"
       ELSE run_pc' = "threw" /\ UNCHANGED state_manager_thread
    /\ UNCHANGED <<server_thread, heartbeat_thread, nrun>>
    /\ RunFrame

\* run(): _state_manager_thread_ready.wait(true, 1000000)
RunWaitStateManager ==
    /\ run_pc = "wait_sm"
    /\ run_pc' = IF state_manager_thread_ready THEN "start_hb" ELSE "threw"
    /\ UNCHANGED <<server_thread, state_manager_thread, heartbeat_thread, nrun>>
    /\ RunFrame

\* run(): _heartbeat_thread.start() unless it is running
RunStartHeartbeat(started) ==
    /\ run_pc = "start_hb"
    /\ IF Running(heartbeat_thread)
       THEN run_pc' = "publish" /\ UNCHANGED heartbeat_thread
       ELSE IF started
       THEN run_pc' = "publish" /\ heartbeat_thread' = "loop"
       ELSE run_pc' = "threw" /\ UNCHANGED heartbeat_thread
    /\ UNCHANGED <<server_thread, state_manager_thread, nrun>>
    /\ RunFrame

\* what the steps of the two threads leave alone
ThreadFrame ==
    UNCHANGED <<nonboot, sm_pending, reply, lastReq, lastMut, putlog, run_pc,
                callbacks, filters, inbox, cb_log, dropped, unsubbed, nsub,
                initial_urls, heartbeat_thread, nrun>>

\* server_task: bind_server on the publisher URLs, then the signal
ServerBind(n) ==
    /\ server_thread = "bind"
    /\ LET b == bind_server(publish_service_urls, n)
       IN  /\ publish_service_urls' = b.urls
           /\ server_thread' = IF b.ok THEN "loop" ELSE "exited"
           /\ server_thread_ready' = (server_thread_ready \/ b.ok)
    /\ UNCHANGED <<root, data_queue, state_service_urls, state_manager_thread,
                   state_manager_thread_ready, as_configured>>
    /\ ThreadFrame

\* state_manager_task: pipe.bind
StateManagerPipe(bound) ==
    /\ state_manager_thread = "pipe"
    /\ state_manager_thread' = IF bound THEN "bind" ELSE "exited"
    /\ UNCHANGED <<root, data_queue, state_service_urls, publish_service_urls, server_thread,
                   server_thread_ready, state_manager_thread_ready, as_configured>>
    /\ ThreadFrame

\* state_manager_task: bind_server on the state URLs, KeymasterServer.URLS
\* written and published
StateManagerBind(n) ==
    /\ state_manager_thread = "bind"
    /\ LET b  == bind_server(state_service_urls, n)
           r  == put_yaml_node(root, <<"KeymasterServer", "URLS">>, Scalar(StateUrls), TRUE)
           st == publish(r.tree, <<"KeymasterServer", "URLS">>, FALSE, 0, data_queue)
       IN  /\ state_service_urls' = b.urls
           /\ IF b.ok
              THEN /\ root' = r.tree
                   /\ data_queue' = st.q
                   /\ state_manager_thread' = "write"
              ELSE /\ state_manager_thread' = "exited"
                   /\ UNCHANGED <<root, data_queue>>
    /\ UNCHANGED <<publish_service_urls, server_thread, server_thread_ready,
                   state_manager_thread_ready, as_configured>>
    /\ ThreadFrame

\* state_manager_task: the two AsConfigured lists written, and their
\* publication, which blocks in _data_queue.put() while the queue is full
StateManagerWrite ==
    /\ state_manager_thread = "write"
    /\ LET rs == put_yaml_node(root, AsConfiguredState, Scalar(StateUrls), TRUE)
           rp == put_yaml_node(rs.tree, AsConfiguredPub, Scalar(PubUrls), TRUE)
           s1 == publish(rp.tree, AsConfiguredState, TRUE, 0, data_queue)
           s2 == publish(rp.tree, AsConfiguredPub, TRUE, 0, s1.q)
       IN  /\ root' = rp.tree
           /\ data_queue' = s2.q
           /\ sm_pending' = s1.pend \o s2.pend
           /\ as_configured' = [State |-> state_service_urls, Pub |-> publish_service_urls]
           /\ state_manager_thread' = IF rs.result /\ rp.result THEN "signal" ELSE "exited"
    /\ UNCHANGED <<nonboot, reply, lastReq, lastMut, putlog, run_pc,
                   callbacks, filters, inbox, cb_log, dropped, unsubbed, nsub,
                   initial_urls, heartbeat_thread, nrun,
                   state_service_urls, publish_service_urls, server_thread, server_thread_ready,
                   state_manager_thread_ready>>

\* state_manager_task: _state_manager_thread_ready.signal(true)
StateManagerSignal ==
    /\ state_manager_thread = "signal"
    /\ sm_pending = <<>>
    /\ state_manager_thread' = "poll"
    /\ state_manager_thread_ready' = TRUE
    /\ UNCHANGED <<root, data_queue, state_service_urls, publish_service_urls, server_thread,
                   server_thread_ready, as_configured>>
    /\ ThreadFrame

\* server_task in its loop
ServerLoop ==
    /\ server_thread = "loop"
    /\ ServerSend

InitRUN ==
    /\ root = MinimalConfig
    /\ data_queue = <<>>
    /\ sm_pending = <<>>
    /\ reply = NoReply
    /\ lastReq = [n |-> 0, frames |-> <<"none">>]
    /\ lastMut = [n |-> 0, frames |-> <<"none">>]
    /\ putlog = {}
    /\ run_pc = "new"
    /\ callbacks = [c \in Clients |-> {}]
    /\ filters = [c \in Clients |-> [k \in {} |-> 0]]
    /\ inbox = [c \in Clients |-> <<>>]
    /\ cb_log = [c \in Clients |-> <<>>]
    /\ dropped = {}
    /\ unsubbed = {}
    /\ nsub = 0
    /\ TRInit
    /\ FSMInit
    /\ DPInit
    /\ RPCInit
    /\ LifeInit
    /\ LateInit
    /\ initial_urls \in InitialLists
    /\ state_service_urls = <<>>
    /\ publish_service_urls = <<>>
    /\ server_thread = "none"
    /\ state_manager_thread = "none"
    /\ heartbeat_thread = "none"
    /\ server_thread_ready = FALSE
    /\ state_manager_thread_ready = FALSE
    /\ as_configured = NotWritten
    /\ nrun = 0

NextRUN ==
    \/ \E hostname_ok \in BOOLEAN : Construct(hostname_ok)
    \/ RunCall
    \/ \E started \in BOOLEAN : RunStartPublisher(started)
    \/ RunWaitPublisher
    \/ \E started \in BOOLEAN : RunStartStateManager(started)
    \/ RunWaitStateManager
    \/ \E started \in BOOLEAN : RunStartHeartbeat(started)
    \/ RunPublish
    \/ \E n \in 0..MaxUrls : n <= Len(publish_service_urls) /\ ServerBind(n)
    \/ StateManagerPipe(TRUE) \/ StateManagerPipe(FALSE)
    \/ \E n \in 0..(MaxUrls + 1) : n <= Len(state_service_urls) /\ StateManagerBind(n)
    \/ StateManagerWrite
    \/ SMBlockedPut
    \/ StateManagerSignal
    \/ ServerLoop

SpecRUN == InitRUN /\ [][NextRUN]_vars

----------------------------------------------------------------------------
(* Keymaster server: heartbeat_task, terminate() and the ends of the workers *)

HeartbeatKey == <<"Keymaster", "heartbeat">>

\* the times of the model
Times == 0..(FirstWake + MaxBeats + 1)

\* std::to_string of a Time_t
to_string(t) == ToString(t)

\* the number a client reads out of the scalar
as_time(s) == CHOOSE t \in Times : to_string(t) = s

\* what the steps of heartbeat_task leave alone
HBFrame ==
    UNCHANGED <<nonlife, kmvars, initial_urls, state_service_urls, publish_service_urls,
                server_thread, state_manager_thread, server_thread_ready,
                state_manager_thread_ready, as_configured, nrun,
                running, samples, term_pc, pipe, queue_released>>

\* a heartbeat_task that never looks at _running
HBCheck_forever ==
    /\ heartbeat_thread = "loop"
    /\ hb_pc = "check"
    /\ nbeat < MaxBeats
    /\ hb_pc' = "sleep"
    /\ UNCHANGED <<heartbeat_thread, wake_time, hb_val, hb_sock, hb_wire, hb_resp, nbeat>>
    /\ HBFrame

\* heartbeat_task: while (_running)
HBCheck ==
    /\ heartbeat_thread = "loop"
    /\ hb_pc = "check"
    /\ running => nbeat < MaxBeats
    /\ IF running
       THEN hb_pc' = "sleep" /\ UNCHANGED heartbeat_thread
       ELSE hb_pc' = "end" /\ heartbeat_thread' = "exited"
    /\ UNCHANGED <<wake_time, hb_val, hb_sock, hb_wire, hb_resp, nbeat>>
    /\ HBFrame

\* a heartbeat_task whose wake_time goes back
HBWake_back ==
    /\ hb_pc = "sleep"
    /\ hb_val' = wake_time
    /\ wake_time' = wake_time - one_sec
    /\ nbeat' = nbeat + 1
    /\ hb_pc' = "send"
    /\ UNCHANGED <<heartbeat_thread, hb_sock, hb_wire, hb_resp>>
    /\ HBFrame

\* heartbeat_task: thread_sleep_until(wake_time); t = wake_time; wake_time += one_sec
HBWake ==
    /\ hb_pc = "sleep"
    /\ hb_val' = wake_time
    /\ wake_time' = wake_time + one_sec
    /\ nbeat' = nbeat + 1
    /\ hb_pc' = "send"
    /\ UNCHANGED <<heartbeat_thread, hb_sock, hb_wire, hb_resp>>
    /\ HBFrame

\* heartbeat_task: the four z_send; a REQ socket that awaits a reply cannot send
HBSend(how) ==
    /\ hb_pc = "send"
    /\ \/ /\ how = "sent"
          /\ hb_sock = "ready"
          /\ hb_wire' = Append(hb_wire, hb_val)
          /\ hb_sock' = "awaiting"
          /\ hb_pc' = "recv"
       \/ /\ how = "timeout"             \* MatrixException, caught
          /\ hb_pc' = "check"
          /\ UNCHANGED <<hb_wire, hb_sock>>
    /\ UNCHANGED <<heartbeat_thread, wake_time, hb_val, hb_resp, nbeat>>
    /\ HBFrame

\* heartbeat_task: z_recv
HBRecv(how) ==
    /\ hb_pc = "recv"
    /\ \/ /\ how = "got"
          /\ hb_resp > 0
          /\ hb_resp' = hb_resp - 1
          /\ hb_sock' = "ready"
       \/ /\ how = "timeout"             \* MatrixException, caught
          /\ UNCHANGED <<hb_resp, hb_sock>>
    /\ hb_pc' = "check"
    /\ UNCHANGED <<heartbeat_thread, wake_time, hb_val, hb_wire, nbeat>>
    /\ HBFrame

\* the state manager can take a request: it is in its poll loop, not
\* blocked in a put, and has no sentinel on its pipe, which it looks at first
SMPolling ==
    /\ state_manager_thread = "poll"
    /\ sm_pending = <<>>
    /\ pipe = <<>>

\* state_manager_task: one pass of the poll loop with the heartbeat's PUT
HBServe ==
    /\ SMPolling
    /\ hb_wire # <<>>
    /\ LET frames == <<"PUT", HeartbeatKey, Emit(Scalar(to_string(Head(hb_wire)))), "create">>
           out    == handle_request(frames, root, data_queue, 0)
       IN  /\ root' = out.tree
           /\ data_queue' = out.q
           /\ sm_pending' = out.pend
    /\ hb_wire' = Tail(hb_wire)
    /\ hb_resp' = hb_resp + 1
    /\ UNCHANGED <<nonlife, bootvars, reply, lastReq, lastMut, putlog, run_pc,
                   callbacks, filters, inbox, cb_log, dropped, unsubbed, nsub,
                   running, wake_time, hb_pc, hb_val, hb_sock, nbeat, samples,
                   term_pc, pipe, queue_released>>

\* state_manager_task: one pass of the poll loop with a client's GET of
\* Keymaster.heartbeat, and the client reading the reply
HBGet ==
    /\ SMPolling
    /\ Len(samples) < MaxSamples
    /\ LET out == handle_request(<<"GET", HeartbeatKey>>, root, data_queue, 0)
       IN  /\ out.reply.result
           /\ samples' = Append(samples, as_time(Load(out.reply.node)[<<>>]))
    /\ UNCHANGED <<nonlife, bootvars, kmvars,
                   running, wake_time, hb_pc, hb_val, hb_sock, hb_wire, hb_resp, nbeat,
                   term_pc, pipe, queue_released>>

\* what other clients ask for meanwhile
LifeRequests ==
    {<<"PUT", <<"foo", "bar">>, Emit(Scalar("42")), "create">>, <<"DEL", <<"foo", "bar">>>>}

\* state_manager_task: one pass of the poll loop with a request of another client
OtherServe(frames) ==
    /\ SMPolling
    /\ LET out == handle_request(frames, root, data_queue, 0)
       IN  /\ root' = out.tree
           /\ data_queue' = out.q
           /\ sm_pending' = out.pend
    /\ UNCHANGED <<nonlife, bootvars, lifevars, reply, lastReq, lastMut, putlog, run_pc,
                   callbacks, filters, inbox, cb_log, dropped, unsubbed, nsub>>

\* server_task: _data_queue.get() returns false
ServerExit ==
    /\ server_thread = "loop"
    /\ queue_released
    /\ server_thread' = "exited"
    /\ UNCHANGED <<nonlife, kmvars, lifevars, initial_urls, state_service_urls,
                   publish_service_urls, state_manager_thread, heartbeat_thread,
                   server_thread_ready, state_manager_thread_ready, as_configured, nrun>>

\* state_manager_task: the pass of the poll loop that finds the pipe
\* readable: z_recv(pipe, quit) and the break
SMQuit ==
    /\ state_manager_thread = "poll"
    /\ sm_pending = <<>>
    /\ pipe # <<>>
    /\ pipe' = Tail(pipe)
    /\ state_manager_thread' = IF Head(pipe) = TRUE THEN "exited" ELSE "poll"
    /\ UNCHANGED <<nonlife, kmvars, initial_urls, state_service_urls,
                   publish_service_urls, server_thread, heartbeat_thread,
                   server_thread_ready, state_manager_thread_ready, as_configured, nrun,
                   running, wake_time, hb_pc, hb_val, hb_sock, hb_wire, hb_resp, nbeat, samples,
                   term_pc, queue_released>>

\* what the steps of terminate() leave alone
TermFrame ==
    UNCHANGED <<nonlife, kmvars, initial_urls, state_service_urls, publish_service_urls,
                server_thread_ready, state_manager_thread_ready, as_configured, nrun,
                wake_time, hb_pc, hb_val, hb_sock, hb_wire, hb_resp, nbeat, samples>>

\* terminate(): _running = false
TermCall ==
    /\ term_pc = "idle"
    /\ running' = FALSE
    /\ term_pc' = "state manager"
    /\ UNCHANGED <<server_thread, state_manager_thread, heartbeat_thread, pipe, queue_released>>
    /\ TermFrame

\* terminate(): the sentinel sent on the control pipe
TermQuit ==
    /\ term_pc = "state manager"
    /\ IF Running(state_manager_thread)
       THEN pipe' = Append(pipe, TRUE) /\ term_pc' = "join state manager"
       ELSE term_pc' = "publisher" /\ UNCHANGED pipe
    /\ UNCHANGED <<server_thread, state_manager_thread, heartbeat_thread, running, queue_released>>
    /\ TermFrame

\* terminate(): _state_manager_thread.stop_without_cancel()
TermJoinStateManager ==
    /\ term_pc = "join state manager"
    /\ state_manager_thread = "exited"
    /\ state_manager_thread' = "none"
    /\ term_pc' = "publisher"
    /\ UNCHANGED <<server_thread, heartbeat_thread, running, pipe, queue_released>>
    /\ TermFrame

\* terminate(): _data_queue.release()
TermRelease ==
    /\ term_pc = "publisher"
    /\ IF Running(server_thread)
       THEN queue_released' = TRUE /\ term_pc' = "join publisher"
       ELSE term_pc' = "heartbeat" /\ UNCHANGED queue_released
    /\ UNCHANGED <<server_thread, state_manager_thread, heartbeat_thread, running, pipe>>
    /\ TermFrame

\* terminate(): _server_thread.stop_without_cancel()
TermJoinPublisher ==
    /\ term_pc = "join publisher"
    /\ server_thread = "exited"
    /\ server_thread' = "none"
    /\ term_pc' = "heartbeat"
    /\ UNCHANGED <<state_manager_thread, heartbeat_thread, running, pipe, queue_released>>
    /\ TermFrame

\* terminate(): _heartbeat_thread.stop_without_cancel(), and the return
TermJoinHeartbeat ==
    /\ term_pc = "heartbeat"
    /\ heartbeat_thread \in {"none", "exited"}
    /\ heartbeat_thread' = "none"
    /\ term_pc' = "returned"
    /\ UNCHANGED <<server_thread, state_manager_thread, running, pipe, queue_released>>
    /\ TermFrame

\* a server that run() has started
InitLife ==
    /\ KMIdle
    /\ RestInit

\* the heartbeat, the clients that read it and other clients
NextHB ==
    \/ HBCheck
    \/ HBWake
    \/ HBSend("sent") \/ HBSend("timeout")
    \/ HBRecv("got") \/ HBRecv("timeout")
    \/ HBServe
    \/ HBGet
    \/ \E frames \in LifeRequests : OtherServe(frames)
    \/ SMBlockedPut
    \/ ServerLoop

SpecHB == InitLife /\ [][NextHB]_vars

\* the workers and terminate()
NextLife ==
    \/ HBCheck
    \/ HBWake
    \/ HBSend("sent") \/ HBSend("timeout")
    \/ HBRecv("got") \/ HBRecv("timeout")
    \/ HBServe
    \/ \E frames \in LifeRequests : OtherServe(frames)
    \/ SMBlockedPut
    \/ ServerLoop
    \/ ServerExit
    \/ SMQuit
    \/ TermCall
    \/ TermQuit
    \/ TermJoinStateManager
    \/ TermRelease
    \/ TermJoinPublisher
    \/ TermJoinHeartbeat

SpecLife == InitLife /\ [][NextLife]_vars

\* every worker and terminate() itself keep being scheduled; z_send and
\* z_recv of heartbeat_task return or throw within KM_TIMEOUT
FairLife ==
    /\ WF_vars(HBCheck)
    /\ WF_vars(HBWake)
    /\ WF_vars(HBSend("sent") \/ HBSend("timeout"))
    /\ WF_vars(HBRecv("got") \/ HBRecv("timeout"))
    /\ WF_vars(SMBlockedPut)
    /\ WF_vars(ServerLoop)
    /\ WF_vars(ServerExit)
    /\ WF_vars(SMQuit)
    /\ WF_vars(TermQuit)
    /\ WF_vars(TermJoinStateManager)
    /\ WF_vars(TermRelease)
    /\ WF_vars(TermJoinPublisher)
    /\ WF_vars(TermJoinHeartbeat)

SpecTerminate == SpecLife /\ FairLife

----------------------------------------------------------------------------
(* Keymaster client: subscribe, _run and the start of _subscriber_task *)

\* the passes of the loop of _run that asks for the publishing URLs
Tries == 10

\* the keys subscribed to
SubscribeKeys == {"foo", "foo.bar"}

\* the lists of publishing URLs a server may have, by transport
PubLists == {<<"tcp">>, <<"inproc", "tcp">>}

\* same_transport_p(_km_url) over _km_pub_urls
same_transport(urls, km) == \E i \in DOMAIN urls : urls[i] = km

SBFrame == UNCHANGED <<nonsb, sb_km, sb_pub>>

\* subscribe is called, and calls _run
SbCall(key) ==
    /\ sb_pc \in {"idle", "true", "false", "thrown"}
    /\ sb_calls < MaxCalls
    /\ sb_calls' = sb_calls + 1
    /\ sb_key' = key
    /\ sb_i' = 0
    /\ sb_pc' = IF Running(sb_thread) THEN "lock" ELSE "urls"
    /\ UNCHANGED <<sb_server, sb_pub_urls, sb_thread, sb_ready, sb_bound, sb_pipe, sb_ack, sb_callbacks>>
    /\ SBFrame

\* the server comes up while the client is trying
SbServerUp ==
    /\ ~sb_server
    /\ sb_pc = "urls"
    /\ sb_server' = TRUE
    /\ UNCHANGED <<sb_pc, sb_key, sb_i, sb_pub_urls, sb_thread, sb_ready, sb_bound, sb_pipe, sb_ack, sb_callbacks, sb_calls>>
    /\ SBFrame

\* _run: one pass of the loop. get_as throws KeymasterException when no
\* server answers; in the last pass it is thrown on, and subscribe returns false
SbGetUrls ==
    /\ sb_pc = "urls"
    /\ IF sb_server
       THEN /\ sb_pub_urls' = sb_pub
            /\ sb_i' = sb_i + 1
            /\ sb_pc' = IF sb_i + 1 = Tries THEN "lock" ELSE "urls"
       ELSE /\ UNCHANGED sb_pub_urls
            /\ sb_i' = sb_i + 1
            /\ sb_pc' = IF sb_i = Tries - 1 THEN "false" ELSE "urls"
    /\ UNCHANGED <<sb_key, sb_server, sb_thread, sb_ready, sb_bound, sb_pipe, sb_ack, sb_callbacks, sb_calls>>
    /\ SBFrame

\* _run after lck.lock(): the thread is started unless it is running;
\* a start() that fails is a runtime_error
SbStart(started) ==
    /\ sb_pc = "lock"
    /\ IF Running(sb_thread)
       THEN /\ sb_pc' = "request"
            /\ UNCHANGED sb_thread
       ELSE IF started
       THEN /\ sb_thread' = "begin"
            /\ sb_pc' = "waitready"
       ELSE /\ sb_pc' = "thrown"
            /\ UNCHANGED sb_thread
    /\ UNCHANGED <<sb_key, sb_i, sb_server, sb_pub_urls, sb_ready, sb_bound, sb_pipe, sb_ack, sb_callbacks, sb_calls>>
    /\ SBFrame

\* _subscriber_task up to the loop: it returns when no publishing URL has the
\* transport of _km_url; a zmq::error_t of connect or bind is logged only
SbWorkerBegin(bound) ==
    /\ sb_thread = "begin"
    /\ IF same_transport(sb_pub_urls, sb_km)
       THEN /\ sb_bound' = bound
            /\ sb_ready' = TRUE
            /\ sb_thread' = "poll"
       ELSE /\ sb_thread' = "exited"
            /\ UNCHANGED <<sb_bound, sb_ready>>
    /\ UNCHANGED <<sb_pc, sb_key, sb_i, sb_server, sb_pub_urls, sb_pipe, sb_ack, sb_callbacks, sb_calls>>
    /\ SBFrame

\* _run: _subscriber_thread_ready.wait(true, 1000000) returns true
SbReady ==
    /\ sb_pc = "waitready"
    /\ sb_ready
    /\ sb_pc' = "request"
    /\ UNCHANGED <<sb_key, sb_i, sb_server, sb_pub_urls, sb_thread, sb_ready, sb_bound, sb_pipe, sb_ack, sb_callbacks, sb_calls>>
    /\ SBFrame

\* _run: the wait times out, runtime_error is thrown; subscribe catches
\* KeymasterException only
SbTimeout ==
    /\ sb_pc = "waitready"
    /\ ~sb_ready
    /\ sb_pc' = "thrown"
    /\ UNCHANGED <<sb_key, sb_i, sb_server, sb_pub_urls, sb_thread, sb_ready, sb_bound, sb_pipe, sb_ack, sb_callbacks, sb_calls>>
    /\ SBFrame

\* subscribe: SUBSCRIBE, key and functor sent on the pipe
SbRequest ==
    /\ sb_pc = "request"
    /\ sb_pipe' = sb_key
    /\ sb_pc' = "waitack"
    /\ UNCHANGED <<sb_key, sb_i, sb_server, sb_pub_urls, sb_thread, sb_ready, sb_bound, sb_ack, sb_callbacks, sb_calls>>
    /\ SBFrame

\* _subscriber_task: SUBSCRIBE taken from the pipe and acknowledged
SbWorkerSubscribe ==
    /\ sb_thread = "poll"
    /\ sb_bound
    /\ sb_pipe # "none"
    /\ sb_callbacks' = sb_callbacks \cup {sb_pipe}
    /\ sb_pipe' = "none"
    /\ sb_ack' = TRUE
    /\ UNCHANGED <<sb_pc, sb_key, sb_i, sb_server, sb_pub_urls, sb_thread, sb_ready, sb_bound, sb_calls>>
    /\ SBFrame

\* subscribe: z_recv(pipe, rval), with no time limit
SbAck ==
    /\ sb_pc = "waitack"
    /\ sb_ack
    /\ sb_ack' = FALSE
    /\ sb_pc' = "true"
    /\ UNCHANGED <<sb_key, sb_i, sb_server, sb_pub_urls, sb_thread, sb_ready, sb_bound, sb_pipe, sb_callbacks, sb_calls>>
    /\ SBFrame

\* a client that subscribes, beside a server that may not be there
InitSB ==
    /\ KMIdle
    /\ TRInit
    /\ FSMInit
    /\ DPInit
    /\ RPCInit
    /\ BootDone
    /\ LifeInit
    /\ CRInit
    /\ RCInit
    /\ TCInit
    /\ SVInit
    /\ KSInit
    /\ DDInit
    /\ sb_pc = "idle"
    /\ sb_key = "none"
    /\ sb_i = 0
    /\ sb_km \in {"tcp", "inproc"}
    /\ sb_server \in BOOLEAN
    /\ sb_pub \in PubLists
    /\ sb_pub_urls = <<>>
    /\ sb_thread = "none"
    /\ sb_ready = FALSE
    /\ sb_bound = FALSE
    /\ sb_pipe = "none"
    /\ sb_ack = FALSE
    /\ sb_callbacks = {}
    /\ sb_calls = 0

NextSB ==
    \/ \E key \in SubscribeKeys : SbCall(key)
    \/ SbServerUp
    \/ SbGetUrls
    \/ SbStart(TRUE) \/ SbStart(FALSE)
    \/ SbWorkerBegin(TRUE) \/ SbWorkerBegin(FALSE)
    \/ SbReady
    \/ SbTimeout
    \/ SbRequest
    \/ SbWorkerSubscribe
    \/ SbAck

SpecSB == InitSB /\ [][NextSB]_vars

----------------------------------------------------------------------------
(* ZMQTransportClient: connect, disconnect, subscribe, unsubscribe and the
   subscriber worker sub_task *)

\* the keys a caller may pass; the worker refuses the empty key
TcKeys == {"", "k"}

\* whether _connected held when a call was made
Conn == IF tc_connected THEN "connected" ELSE "unconnected"

\* the value a call returns for the answer of the worker
Rval(ack) == IF ack = "1" THEN "true" ELSE "false"

TCFrame == UNCHANGED <<nontc>>

\* Impl::connect. start() asserts that no thread has been started
TcConnect(started) ==
    /\ tc_pc = "idle"
    /\ tc_fault # "terminated"
    /\ tc_ops < MaxTcOps
    /\ tc_ops' = tc_ops + 1
    /\ IF tc_connected
       THEN /\ tc_op' = <<"connect", "false", Conn>>
            /\ UNCHANGED <<tc_pc, tc_thread, tc_wpc>>
       ELSE IF Running(tc_thread)
       THEN /\ tc_op' = <<"connect", "none", Conn>>
            /\ tc_pc' = "aborted"
            /\ UNCHANGED <<tc_thread, tc_wpc>>
       ELSE IF started
       THEN /\ tc_op' = <<"connect", "none", Conn>>
            /\ tc_pc' = "connect_wait"
            /\ tc_thread' = "started"
            /\ tc_wpc' = "init"
       ELSE /\ tc_op' = <<"connect", "false", Conn>>
            /\ UNCHANGED <<tc_pc, tc_thread, tc_wpc>>
    /\ UNCHANGED <<tc_connected, tc_ready, tc_pipe, tc_ack, tc_subscribers, tc_filter, tc_inbox,
                   tc_found, tc_delivered, tc_published, tc_access, tc_sent, tc_open, tc_fault>>
    /\ TCFrame

\* Impl::connect: _task_ready.wait(true, 100000000) returns true
TcConnectReady ==
    /\ tc_pc = "connect_wait"
    /\ tc_ready
    /\ tc_connected' = TRUE
    /\ tc_op' = <<"connect", "true", "unconnected">>
    /\ tc_pc' = "idle"
    /\ UNCHANGED <<tc_ops, tc_thread, tc_wpc, tc_ready, tc_pipe, tc_ack, tc_subscribers, tc_filter,
                   tc_inbox, tc_found, tc_delivered, tc_published, tc_access, tc_sent, tc_open, tc_fault>>
    /\ TCFrame

\* Impl::connect: the wait times out
TcConnectTimeout ==
    /\ tc_pc = "connect_wait"
    /\ ~tc_ready
    /\ tc_op' = <<"connect", "false", "unconnected">>
    /\ tc_pc' = "idle"
    /\ UNCHANGED <<tc_ops, tc_connected, tc_thread, tc_wpc, tc_ready, tc_pipe, tc_ack, tc_subscribers,
                   tc_filter, tc_inbox, tc_found, tc_delivered, tc_published, tc_access, tc_sent,
                   tc_open, tc_fault>>
    /\ TCFrame

\* a variant of disconnect that does not look at _connected
TcDisconnect_always ==
    /\ tc_pc = "idle"
    /\ tc_fault # "terminated"
    /\ tc_ops < MaxTcOps
    /\ tc_ops' = tc_ops + 1
    /\ tc_pipe' = <<"QUIT", "">>
    /\ tc_sent' = tc_sent + 1
    /\ tc_op' = <<"disconnect", "none", Conn>>
    /\ tc_pc' = "quit_wait"
    /\ UNCHANGED <<tc_connected, tc_thread, tc_wpc, tc_ready, tc_ack, tc_subscribers, tc_filter,
                   tc_inbox, tc_found, tc_delivered, tc_published, tc_access, tc_open, tc_fault>>
    /\ TCFrame

\* Impl::disconnect, up to z_recv
TcDisconnect ==
    /\ tc_pc = "idle"
    /\ tc_fault # "terminated"
    /\ tc_ops < MaxTcOps
    /\ tc_ops' = tc_ops + 1
    /\ IF tc_connected
       THEN /\ tc_pipe' = <<"QUIT", "">>
            /\ tc_sent' = tc_sent + 1
            /\ tc_op' = <<"disconnect", "none", Conn>>
            /\ tc_pc' = "quit_wait"
       ELSE /\ tc_op' = <<"disconnect", "false", Conn>>
            /\ UNCHANGED <<tc_pipe, tc_sent, tc_pc>>
    /\ UNCHANGED <<tc_connected, tc_thread, tc_wpc, tc_ready, tc_ack, tc_subscribers, tc_filter,
                   tc_inbox, tc_found, tc_delivered, tc_published, tc_access, tc_open, tc_fault>>
    /\ TCFrame

\* Impl::disconnect: the answer received, the thread joined
TcDisconnectDone ==
    /\ tc_pc = "quit_wait"
    /\ tc_ack # "none"
    /\ tc_wpc = "exited"
    /\ tc_thread' = "none"
    /\ tc_wpc' = "off"
    /\ tc_connected' = FALSE
    /\ tc_op' = <<"disconnect", Rval(tc_ack), "connected">>
    /\ tc_ack' = "none"
    /\ tc_pc' = "idle"
    /\ UNCHANGED <<tc_ops, tc_ready, tc_pipe, tc_subscribers, tc_filter, tc_inbox, tc_found,
                   tc_delivered, tc_published, tc_access, tc_sent, tc_open, tc_fault>>
    /\ TCFrame

\* a variant of subscribe that enters the callback itself
TcRequest_direct(msg, key) ==
    /\ tc_pc = "idle"
    /\ tc_fault # "terminated"
    /\ tc_ops < MaxTcOps
    /\ tc_ops' = tc_ops + 1
    /\ IF tc_connected
       THEN /\ tc_subscribers' = IF msg = "SUBSCRIBE" THEN tc_subscribers \cup {key}
                                 ELSE tc_subscribers \ {key}
            /\ tc_access' = tc_access \cup {"caller"}
            /\ tc_op' = <<msg, "true", Conn>>
       ELSE /\ tc_op' = <<msg, "false", Conn>>
            /\ UNCHANGED <<tc_subscribers, tc_access>>
    /\ UNCHANGED <<tc_pc, tc_connected, tc_thread, tc_wpc, tc_ready, tc_pipe, tc_ack, tc_filter,
                   tc_inbox, tc_found, tc_delivered, tc_published, tc_sent, tc_open, tc_fault>>
    /\ TCFrame

\* Impl::subscribe and Impl::unsubscribe, up to z_recv
TcRequest(msg, key) ==
    /\ tc_pc = "idle"
    /\ tc_fault # "terminated"
    /\ tc_ops < MaxTcOps
    /\ tc_ops' = tc_ops + 1
    /\ IF tc_connected
       THEN /\ tc_pipe' = <<msg, key>>
            /\ tc_sent' = tc_sent + 1
            /\ tc_op' = <<msg, "none", Conn>>
            /\ tc_pc' = "wait"
       ELSE /\ tc_op' = <<msg, "false", Conn>>
            /\ UNCHANGED <<tc_pipe, tc_sent, tc_pc>>
    /\ UNCHANGED <<tc_connected, tc_thread, tc_wpc, tc_ready, tc_ack, tc_subscribers, tc_filter,
                   tc_inbox, tc_found, tc_delivered, tc_published, tc_access, tc_open, tc_fault>>
    /\ TCFrame

\* Impl::subscribe and Impl::unsubscribe: the answer received
TcAck ==
    /\ tc_pc = "wait"
    /\ tc_ack # "none"
    /\ tc_op' = <<tc_op[1], Rval(tc_ack), "connected">>
    /\ tc_ack' = "none"
    /\ tc_pc' = "idle"
    /\ UNCHANGED <<tc_ops, tc_connected, tc_thread, tc_wpc, tc_ready, tc_pipe, tc_subscribers,
                   tc_filter, tc_inbox, tc_found, tc_delivered, tc_published, tc_access, tc_sent,
                   tc_open, tc_fault>>
    /\ TCFrame

\* sub_task up to the loop: the sockets made, connected and bound
TcWorkerInit ==
    /\ tc_wpc = "init"
    /\ tc_open' = TRUE
    /\ tc_access' = tc_access \cup {"worker"}
    /\ tc_ready' = TRUE
    /\ tc_wpc' = "poll"
    /\ UNCHANGED <<tc_pc, tc_op, tc_ops, tc_connected, tc_thread, tc_pipe, tc_ack, tc_subscribers,
                   tc_filter, tc_inbox, tc_found, tc_delivered, tc_published, tc_sent, tc_fault>>
    /\ TCFrame

\* sub_task: a message of the control pipe, taken and answered
TcWorkerControl ==
    /\ tc_wpc = "poll"
    /\ tc_pipe # <<>>
    /\ tc_pipe' = <<>>
    /\ LET msg == tc_pipe[1]
           key == tc_pipe[2]
       IN  CASE msg = "QUIT" ->
                  /\ tc_ack' = "0"
                  /\ tc_wpc' = "closing"
                  /\ UNCHANGED <<tc_subscribers, tc_filter, tc_access>>
             [] msg # "QUIT" /\ key = "" ->
                  /\ tc_ack' = "0"
                  /\ UNCHANGED <<tc_wpc, tc_subscribers, tc_filter, tc_access>>
             [] msg = "SUBSCRIBE" /\ key # "" ->
                  /\ tc_subscribers' = tc_subscribers \cup {key}
                  /\ tc_filter' = tc_filter \cup {key}
                  /\ tc_access' = tc_access \cup {"worker"}
                  /\ tc_ack' = "1"
                  /\ UNCHANGED tc_wpc
             [] OTHER ->
                  /\ tc_subscribers' = tc_subscribers \ {key}
                  /\ tc_filter' = tc_filter \ {key}
                  /\ tc_access' = tc_access \cup {"worker"}
                  /\ tc_ack' = "1"
                  /\ UNCHANGED tc_wpc
    /\ UNCHANGED <<tc_pc, tc_op, tc_ops, tc_connected, tc_thread, tc_ready, tc_inbox, tc_found,
                   tc_delivered, tc_published, tc_sent, tc_open, tc_fault>>
    /\ TCFrame

\* sub_task: the key of a publication received, its callback looked up
TcWorkerRecv ==
    /\ tc_wpc = "poll"
    /\ tc_inbox # <<>>
    /\ tc_found' = <<Head(tc_inbox), Head(tc_inbox) \in tc_subscribers>>
    /\ tc_inbox' = Tail(tc_inbox)
    /\ tc_access' = tc_access \cup {"worker"}
    /\ tc_wpc' = "exec"
    /\ UNCHANGED <<tc_pc, tc_op, tc_ops, tc_connected, tc_thread, tc_ready, tc_pipe, tc_ack,
                   tc_subscribers, tc_filter, tc_delivered, tc_published, tc_sent, tc_open, tc_fault>>
    /\ TCFrame

\* sub_task: the data frame received, the callback called if there is one
TcWorkerExec ==
    /\ tc_wpc = "exec"
    /\ tc_delivered' = IF tc_found[2] THEN Append(tc_delivered, tc_found[1]) ELSE tc_delivered
    /\ tc_found' = "none"
    /\ tc_wpc' = "poll"
    /\ UNCHANGED <<tc_pc, tc_op, tc_ops, tc_connected, tc_thread, tc_ready, tc_pipe, tc_ack,
                   tc_subscribers, tc_filter, tc_inbox, tc_published, tc_access, tc_sent, tc_open,
                   tc_fault>>
    /\ TCFrame

\* sub_task: zmq::error_t caught. "Context was terminated" leaves the loop
\* and the function with the sockets as they are; after any other error the
\* loop goes on
TcFault(kind) ==
    /\ tc_wpc \in {"poll", "exec"}
    /\ tc_fault = "none"
    /\ tc_fault' = kind
    /\ tc_found' = "none"
    /\ tc_wpc' = IF kind = "terminated" THEN "exited" ELSE "poll"
    /\ UNCHANGED <<tc_pc, tc_op, tc_ops, tc_connected, tc_thread, tc_ready, tc_pipe, tc_ack,
                   tc_subscribers, tc_filter, tc_inbox, tc_delivered, tc_published, tc_access,
                   tc_sent, tc_open>>
    /\ TCFrame

\* sub_task after the loop: the sockets closed
TcWorkerClose ==
    /\ tc_wpc = "closing"
    /\ tc_open' = FALSE
    /\ tc_wpc' = "exited"
    /\ UNCHANGED <<tc_pc, tc_op, tc_ops, tc_connected, tc_thread, tc_ready, tc_pipe, tc_ack,
                   tc_subscribers, tc_filter, tc_inbox, tc_found, tc_delivered, tc_published,
                   tc_access, tc_sent, tc_fault>>
    /\ TCFrame

\* the transport server publishes under a key; sub_sock takes what its
\* subscriptions let through
TcPublish(key) ==
    /\ tc_published < MaxPublished
    /\ tc_published' = tc_published + 1
    /\ tc_inbox' = IF tc_open /\ key \in tc_filter THEN Append(tc_inbox, key) ELSE tc_inbox
    /\ UNCHANGED <<tc_pc, tc_op, tc_ops, tc_connected, tc_thread, tc_wpc, tc_ready, tc_pipe, tc_ack,
                   tc_subscribers, tc_filter, tc_found, tc_delivered, tc_access, tc_sent, tc_open,
                   tc_fault>>
    /\ TCFrame

\* a transport client and the thread that uses it
InitTC ==
    /\ KMIdle
    /\ TRInit
    /\ FSMInit
    /\ DPInit
    /\ RPCInit
    /\ BootDone
    /\ LifeInit
    /\ CRInit
    /\ RCInit
    /\ SBInit
    /\ TCInit
    /\ SVInit
    /\ KSInit
    /\ DDInit

NextTC ==
    \/ TcConnect(TRUE) \/ TcConnect(FALSE)
    \/ TcConnectReady
    \/ TcConnectTimeout
    \/ TcDisconnect
    \/ TcDisconnectDone
    \/ \E msg \in {"SUBSCRIBE", "UNSUBSCRIBE"}, key \in TcKeys : TcRequest(msg, key)
    \/ TcAck
    \/ TcWorkerInit
    \/ TcWorkerControl
    \/ TcWorkerRecv
    \/ TcWorkerExec
    \/ TcFault("socket") \/ TcFault("terminated")
    \/ TcWorkerClose
    \/ TcPublish("k")

SpecTC == InitTC /\ [][NextTC]_vars

----------------------------------------------------------------------------
(* KeymasterServer::KmImpl::state_manager_task: the loop, with YAML::Load,
   the clone of the tree and the replies counted *)

\* a value frame that is no YAML document
BadText == {<<<<>>, "[1, 2">>}

\* whether YAML::Load(yaml_string) returns; it throws YAML::ParserException otherwise
Parses(text) == text # BadText

\* clone_interval(1000)
DefaultInterval == 1000

\* the values of Keymaster.clone_interval
Intervals == {0, 1, 2}

\* clone_interval as the loop uses it
clone_interval == IF sv_interval # 0 THEN sv_interval ELSE DefaultInterval

\* YAML::Clone
Clone(node) == node

\* the requests sent to a server that clones
SvRequests ==
    {<<"ping">>, <<"LIST">>, <<"GET">>, <<"PUT", <<"foo">>>>, <<"DEL">>,
     <<"GET", <<"foo", "bar">>>>,
     <<"PUT", <<"foo", "bar">>, Emit(Scalar("42")), "create">>,
     <<"PUT", <<"foo", "bar", "baz">>, Emit(Scalar("42"))>>,
     <<"PUT", <<"foo", "bar">>, BadText, "create">>,
     <<"DEL", <<"foo", "bar">>>>}

\* the requests that reach put_yaml_node
IsPut(frames) == frames[1] = "PUT" /\ Len(frames) > 2

\* publish() when the emitter throws YAML::Exception at the at-th node:
\* the packages before it are queued, publish returns false
publish_until(out, frames, q, tag, at) ==
    LET keychain == IF frames[2] = RootKey THEN <<>> ELSE frames[2]
        st == publish_loop(out.tree, SubSeq(keychain, 1, at - 1), 1, frames[1] = "DEL", tag,
                           [q |-> q, pend |-> <<>>, rval |-> TRUE])
    IN  [out EXCEPT !.q = st.q, !.pend = st.pend]

\* the variables of the server that a pass of this loop leaves alone
SVFrame ==
    UNCHANGED <<trvars, fsmvars, dpvars, rpcvars, bootvars, lifevars,
                crvars, rcvars, sbvars, tcvars, ksvars, ddvars,
                lastMut, putlog, run_pc, callbacks, filters, inbox, cb_log, dropped, unsubbed,
                nsub, sv_interval>>

\* one pass of the loop with a request on state_sock (put_counter, an
\* unsigned int, does not wrap within the requests of one behaviour).
\* YAML::Load is called
\* outside any handler for YAML exceptions: the clause of the loop catches
\* zmq::error_t only, so a ParserException ends the thread function.
\* at > 0 is a pass in which the emitter throws inside publish(), which
\* catches it
SvServe(frames, at) ==
    /\ sv_thread = "poll"
    /\ sm_pending = <<>>
    /\ sv_read < MaxSvReq
    /\ sv_read' = sv_read + 1
    /\ lastReq' = [n |-> lastReq.n + 1, frames |-> frames]
    /\ IF IsPut(frames) /\ ~Parses(frames[3])
       THEN /\ sv_thread' = "terminated"
            /\ UNCHANGED <<root, data_queue, sm_pending, reply, put_counter, sv_live, sv_clones,
                           sv_good, sv_sent>>
       ELSE LET tag  == lastReq.n + 1
                full == handle_request(frames, root, data_queue, tag)
                wrote == frames[1] \in {"PUT", "DEL"} /\ full.reply.kind = "yaml_result"
                            /\ full.reply.result
                out  == IF at = 0 THEN full ELSE publish_until(full, frames, data_queue, tag, at)
                n    == IF IsPut(frames) THEN put_counter + 1 ELSE put_counter
                cloned == IsPut(frames) /\ n % clone_interval = 0
            IN  /\ at # 0 => (wrote /\ at <= Len(frames[2]))
                /\ root' = IF cloned THEN Clone(out.tree) ELSE out.tree
                /\ data_queue' = out.q
                /\ sm_pending' = out.pend
                /\ reply' = out.reply
                /\ sv_sent' = sv_sent + 1
                /\ put_counter' = n
                /\ sv_live' = IF cloned THEN (sv_live + 1) - 1 ELSE sv_live
                /\ sv_clones' = IF cloned THEN sv_clones + 1 ELSE sv_clones
                /\ sv_good' = IF IsPut(frames) /\ full.reply.result THEN sv_good + 1 ELSE sv_good
                /\ UNCHANGED sv_thread
    /\ SVFrame

\* a server alone, with a clone interval from its configuration
InitSV ==
    /\ KMIdle
    /\ TRInit
    /\ FSMInit
    /\ DPInit
    /\ RPCInit
    /\ BootDone
    /\ LifeInit
    /\ CRInit
    /\ RCInit
    /\ SBInit
    /\ TCInit
    /\ KSInit
    /\ DDInit
    /\ sv_thread = "poll"
    /\ sv_interval \in Intervals
    /\ put_counter = 0
    /\ sv_live = 1
    /\ sv_clones = 0
    /\ sv_good = 0
    /\ sv_read = 0
    /\ sv_sent = 0

NextSV ==
    \/ \E frames \in SvRequests, at \in 0..2 : SvServe(frames, at)
    \/ SMBlockedPut
    \/ ServerSend

SpecSV == InitSV /\ [][NextSV]_vars

----------------------------------------------------------------------------
(* Keymaster::subscribe, unsubscribe, ~Keymaster and the subscriber worker *)

MaxKsOps == 3

MaxKsPubs == 2

KSFrame == UNCHANGED nonks

\* a request is put on the control pipe by a new REQ socket of the caller
KsSend(op, key) ==
    /\ ks_pc = "idle"
    /\ ks_ops < MaxKsOps
    /\ ks_ops' = ks_ops + 1
    /\ ks_call' = [id |-> ks_ops + 1, op |-> op, key |-> key]
    /\ ks_pipe' = Append(ks_pipe, ks_call')
    /\ ks_pc' = "wait"

\* Keymaster::subscribe (the worker runs already): the request is sent
KsSubscribe(key) ==
    /\ KsSend("SUBSCRIBE", key)
    /\ ks_done' = [ks_done EXCEPT ![key] = NotDone]
    /\ UNCHANGED <<ks_acked, ks_worker, ks_callbacks, ks_filter, ks_sock, ks_log, ks_taken,
                   ks_quit, ks_pubs>>
    /\ KSFrame

\* Keymaster::unsubscribe: the request is sent
KsUnsubscribe(key) ==
    /\ KsSend("UNSUBSCRIBE", key)
    /\ UNCHANGED <<ks_acked, ks_worker, ks_callbacks, ks_filter, ks_sock, ks_log, ks_taken,
                   ks_done, ks_quit, ks_pubs>>
    /\ KSFrame

\* ~Keymaster with the worker running: QUIT is sent
KsQuit ==
    /\ ks_worker = "poll"
    /\ KsSend("QUIT", <<>>)
    /\ UNCHANGED <<ks_acked, ks_worker, ks_callbacks, ks_filter, ks_sock, ks_log, ks_taken,
                   ks_done, ks_quit, ks_pubs>>
    /\ KSFrame

\* what the worker does with one request of the control pipe; the variant
\* keeps the callback of a key while a filter for it remains
KsWorkerControl_counted ==
    /\ ks_worker = "poll"
    /\ ks_pipe # <<>>
    /\ LET r == Head(ks_pipe)
       IN  /\ ks_pipe' = Tail(ks_pipe)
           /\ ks_acked' = ks_acked \cup {r.id}
           /\ CASE r.op = "SUBSCRIBE" ->
                     /\ ks_callbacks' = ks_callbacks \cup {r.key}
                     /\ ks_filter' = [ks_filter EXCEPT ![r.key] = @ + 1]
                     /\ UNCHANGED ks_worker
                [] r.op = "UNSUBSCRIBE" ->
                     /\ ks_filter' = [ks_filter EXCEPT ![r.key] = IF @ > 0 THEN @ - 1 ELSE 0]
                     /\ ks_callbacks' = IF ks_filter'[r.key] = 0
                                        THEN ks_callbacks \ {r.key}
                                        ELSE ks_callbacks
                     /\ UNCHANGED ks_worker
                [] OTHER ->
                     /\ ks_worker' = "exited"
                     /\ UNCHANGED <<ks_callbacks, ks_filter>>
    /\ UNCHANGED <<ks_pc, ks_call, ks_sock, ks_log, ks_taken, ks_done, ks_quit, ks_ops, ks_pubs>>
    /\ KSFrame

\* _subscriber_task, the control pipe: SUBSCRIBE stores the callback and adds
\* a filter, UNSUBSCRIBE removes one filter and erases the callback, QUIT
\* ends the loop; each is answered
KsWorkerControl ==
    /\ ks_worker = "poll"
    /\ ks_pipe # <<>>
    /\ LET r == Head(ks_pipe)
       IN  /\ ks_pipe' = Tail(ks_pipe)
           /\ ks_acked' = ks_acked \cup {r.id}
           /\ CASE r.op = "SUBSCRIBE" ->
                     /\ ks_callbacks' = ks_callbacks \cup {r.key}
                     /\ ks_filter' = [ks_filter EXCEPT ![r.key] = @ + 1]
                     /\ UNCHANGED ks_worker
                [] r.op = "UNSUBSCRIBE" ->
                     /\ ks_filter' = [ks_filter EXCEPT ![r.key] = IF @ > 0 THEN @ - 1 ELSE 0]
                     /\ ks_callbacks' = ks_callbacks \ {r.key}
                     /\ UNCHANGED ks_worker
                [] OTHER ->
                     /\ ks_worker' = "exited"
                     /\ UNCHANGED <<ks_callbacks, ks_filter>>
    /\ UNCHANGED <<ks_pc, ks_call, ks_sock, ks_log, ks_taken, ks_done, ks_quit, ks_ops, ks_pubs>>
    /\ KSFrame

\* _subscriber_task, sub_sock: the callback of the topic, if there is one
KsWorkerRecv ==
    /\ ks_worker = "poll"
    /\ ks_sock # <<>>
    /\ ks_sock' = Tail(ks_sock)
    /\ ks_taken' = ks_taken + 1
    /\ ks_log' = IF Head(ks_sock) \in ks_callbacks THEN Append(ks_log, Head(ks_sock)) ELSE ks_log
    /\ UNCHANGED <<ks_pc, ks_call, ks_pipe, ks_acked, ks_worker, ks_callbacks, ks_filter,
                   ks_done, ks_quit, ks_ops, ks_pubs>>
    /\ KSFrame

\* z_recv(pipe, rval) of the caller: the answer has come. subscribe and
\* unsubscribe return true; the destructor joins the worker
KsReturn ==
    /\ ks_pc = "wait"
    /\ ks_call.id \in ks_acked
    /\ ks_pc' = IF ks_call.op = "QUIT" THEN "destroyed" ELSE "idle"
    /\ ks_done' = IF ks_call.op = "UNSUBSCRIBE"
                  THEN [ks_done EXCEPT ![ks_call.key] =
                           [log |-> Len(ks_log), taken |-> ks_taken, queued |-> ks_sock]]
                  ELSE ks_done
    /\ ks_quit' = IF ks_call.op = "QUIT" THEN Len(ks_log) ELSE ks_quit
    /\ UNCHANGED <<ks_call, ks_pipe, ks_acked, ks_worker, ks_callbacks, ks_filter, ks_sock,
                   ks_log, ks_taken, ks_ops, ks_pubs>>
    /\ KSFrame

\* z_recv(pipe, rval, 1000) of unsubscribe: no answer within the second, the
\* call ends with the exception and the request stays with the worker
KsTimeout ==
    /\ ks_pc = "wait"
    /\ ks_call.op = "UNSUBSCRIBE"
    /\ ks_call.id \notin ks_acked
    /\ ks_pc' = "idle"
    /\ UNCHANGED <<ks_call, ks_pipe, ks_acked, ks_worker, ks_callbacks, ks_filter, ks_sock,
                   ks_log, ks_taken, ks_done, ks_quit, ks_ops, ks_pubs>>
    /\ KSFrame

\* the server publishes a topic: it is queued at sub_sock when a filter of
\* the open socket is a prefix of it
KsPublish(topic) ==
    /\ ks_pubs < MaxKsPubs
    /\ ks_pubs' = ks_pubs + 1
    /\ ks_sock' = IF /\ ks_worker = "poll"
                     /\ \E k \in KsKeys : ks_filter[k] > 0 /\ IsPrefix(k, topic)
                  THEN Append(ks_sock, topic)
                  ELSE ks_sock
    /\ UNCHANGED <<ks_pc, ks_call, ks_pipe, ks_acked, ks_worker, ks_callbacks, ks_filter,
                   ks_log, ks_taken, ks_done, ks_quit, ks_ops>>
    /\ KSFrame

InitKS ==
    /\ KMIdle
    /\ TRInit
    /\ FSMInit
    /\ DPInit
    /\ RPCInit
    /\ BootDone
    /\ LifeInit
    /\ CRInit
    /\ RCInit
    /\ SBInit
    /\ TCInit
    /\ SVInit
    /\ KSInit
    /\ DDInit

NextKS ==
    \/ \E key \in KsKeys : KsSubscribe(key)
    \/ \E key \in KsKeys : KsUnsubscribe(key)
    \/ KsQuit
    \/ KsWorkerControl
    \/ KsWorkerRecv
    \/ KsReturn
    \/ KsTimeout
    \/ \E topic \in KsKeys : KsPublish(topic)

SpecKS == InitKS /\ [][NextKS]_vars

----------------------------------------------------------------------------
(* data_description::size: the size of the buffer and the offsets of the fields *)

MaxFields == 3

\* data_description::type_info for the types used here (x86_64)
type_info == [t \in {"char", "int16_t", "int", "double", "long double"} |->
                 CASE t = "char" -> 1 [] t = "int16_t" -> 2 [] t = "int" -> 4
                   [] t = "double" -> 8 [] OTHER -> 16]

FieldLists == UNION {[1..n -> DOMAIN type_info] : n \in 1..MaxFields}

\* max_element over the fields
s_elem_size(types) ==
    CHOOSE m \in {type_info[types[i]] : i \in DOMAIN types} :
        \A i \in DOMAIN types : type_info[types[i]] <= m

\* (a - b < s) on size_t: when b > a the difference wraps to 2^64 - (b - a),
\* which is not below a type size
size_t_diff_below(a, b, s) == IF b <= a THEN a - b < s ELSE FALSE

\* the loop of size() from field i on; offset and s_elems are its locals,
\* offs the offsets stored so far
RECURSIVE size_loop(_, _, _, _, _)
size_loop(types, i, offset, s_elems, offs) ==
    IF i > Len(types)
    THEN [offsets |-> offs, size |-> s_elem_size(types) * s_elems]
    ELSE LET s    == type_info[types[i]]
             o1   == offset + (offset % s)
             wrap == size_t_diff_below(s_elem_size(types), o1, s)
             o2   == IF wrap THEN 0 ELSE o1
             n2   == IF wrap THEN s_elems + 1 ELSE s_elems
         IN  size_loop(types, i + 1, o2 + s, n2,
                       Append(offs, s_elem_size(types) * (n2 - 1) + o2))

\* data_description::size()
size(types) == size_loop(types, 1, 0, 1, <<>>)

DDFrame == UNCHANGED nondd

\* size() is called on the description
DdSize ==
    /\ dd_pc = "new"
    /\ dd_offsets' = size(dd_types).offsets
    /\ dd_size' = size(dd_types).size
    /\ dd_pc' = "sized"
    /\ UNCHANGED dd_types
    /\ DDFrame

InitDD ==
    /\ KMIdle
    /\ TRInit
    /\ FSMInit
    /\ DPInit
    /\ RPCInit
    /\ BootDone
    /\ LifeInit
    /\ CRInit
    /\ RCInit
    /\ SBInit
    /\ TCInit
    /\ SVInit
    /\ KSInit
    /\ dd_types \in FieldLists
    /\ dd_offsets = [i \in DOMAIN dd_types |-> 0]
    /\ dd_size = 0
    /\ dd_pc = "new"

NextDD == DdSize

SpecDD == InitDD /\ [][NextDD]_vars

----------------------------------------------------------------------------
(* Properties *)

Served(cmd) == lastReq'.n # lastReq.n /\ lastReq'.frames[1] = cmd

Accepted(cmd) == Served(cmd) /\ Len(lastReq'.frames) > 1 /\ reply'.result

\* the data_package publish makes for prefix i of path p, from tree t
PackageOf(t, p, i, tag) ==
    [key |-> SubSeq(p, 1, i), val |-> Emit(SubNode(t, SubSeq(p, 1, i))), tag |-> tag]

\* C1: a successful PUT at a non-root path p of n keys appends to the
\* publication queue the messages for the prefixes of p, shortest first,
\* each with the serialization of its node after the PUT, as long as the
\* queue has room: all n of them when it has room for n.
C1_PutFanOut ==
    [][Accepted("PUT") /\ lastReq'.frames[2] # RootKey =>
         LET p    == lastReq'.frames[2]
             want == [i \in 1..Len(p) |-> PackageOf(root', p, i, lastReq'.n)]
         IN  data_queue' =
                 data_queue \o SubSeq(want, 1, Min(Len(p), QueueCap - Len(data_queue)))
      ]_vars

C1_Witness ==
    /\ lastReq.frames[1] = "PUT"
    /\ reply.result
    /\ lastReq.frames[2] = <<"foo", "bar", "baz">>
    /\ Len(data_queue) = 3
    /\ data_queue[3].key = <<"foo", "bar", "baz">> /\ data_queue[3].tag = lastReq.n
    /\ data_queue[1].key = <<"foo">> /\ data_queue[1].tag = lastReq.n
    /\ data_queue[2].key = <<"foo", "bar">> /\ data_queue[2].tag = lastReq.n

\* the callback invocations of client c for topic q caused by request n
Calls(c, n, q) ==
    {i \in DOMAIN cb_log[c] : cb_log[c][i].tag = n /\ cb_log[c][i].key = q}

InSeq(sq, n, q) == \E i \in DOMAIN sq : sq[i].tag = n /\ sq[i].key = q

\* the message of request n for topic q is still on its way to client c
InFlight(c, n, q) ==
    InSeq(data_queue, n, q) \/ InSeq(sm_pending, n, q) \/ InSeq(inbox[c], n, q)

\* client c had its callback subscribed to q when PUT e was accepted, q is a
\* prefix of the path of e, and c has not unsubscribed q
Listening(c, q, e) ==
    /\ <<c, q>> \in e.subs
    /\ <<c, q>> \notin unsubbed
    /\ IsPrefix(q, e.frames[2])

FooBar == <<"foo", "bar">>

FooBarBaz == <<"foo", "bar", "baz">>

\* PUT e is put("foo.bar.baz", 42, create=true), accepted while foo.bar was
\* the only subscription of client c, which has made no other since
OnlyFooBar(c, e) ==
    /\ e.frames = <<"PUT", FooBarBaz, Emit(Scalar("42")), "create">>
    /\ {ck \in e.subs : ck[1] = c} = {<<c, FooBar>>}
    /\ callbacks[c] = {FooBar}
    /\ \A ck \in unsubbed : ck[1] # c

Delivered(c, e) ==
    /\ e.room
    /\ \A i \in 1..Len(e.frames[2]) :
           LET q == SubSeq(e.frames[2], 1, i)
           IN  <<c, e.n, q>> \notin dropped /\ ~InFlight(c, e.n, q)

\* C3 as stated: the callback of a client subscribed to foo.bar only is
\* invoked for the topics foo, foo.bar and foo.bar.baz of that PUT, and the
\* node delivered with topic foo.bar.baz is 42.
C3_ThreeTopics ==
    \A e \in putlog : \A c \in Clients :
        OnlyFooBar(c, e) /\ Delivered(c, e) =>
            /\ \A i \in 1..3 : Calls(c, e.n, SubSeq(FooBarBaz, 1, i)) # {}
            /\ \A i \in Calls(c, e.n, FooBarBaz) : cb_log[c][i].node = Scalar("42")

\* C3 (amended): the callback of a client subscribed to foo.bar only is
\* invoked for that PUT with the topic foo.bar and with no other topic; once
\* the messages are queued and delivered it has been invoked exactly once,
\* with the node at foo.bar, whose entry baz is 42.
C3_OwnTopicOnly ==
    \A e \in putlog : \A c \in Clients :
        OnlyFooBar(c, e) =>
            /\ \A i \in DOMAIN cb_log[c] :
                   cb_log[c][i].tag = e.n => cb_log[c][i].key = FooBar
            /\ Delivered(c, e) =>
                   /\ Cardinality(Calls(c, e.n, FooBar)) = 1
                   /\ \A i \in Calls(c, e.n, FooBar) :
                          /\ <<"baz">> \in DOMAIN cb_log[c][i].node
                          /\ cb_log[c][i].node[<<"baz">>] = "42"

C3_Witness ==
    \E e \in putlog : \E c \in Clients :
        /\ OnlyFooBar(c, e)
        /\ Delivered(c, e)
        /\ Calls(c, e.n, FooBar) # {}

\* C4: a GET of p served after a successful PUT(p, v), with no other
\* mutation in between, replies a result record with result = true and
\* node = v.
C4_GetAfterPut ==
    [][(/\ Served("GET") /\ Len(lastReq'.frames) > 1
        /\ lastMut.frames[1] = "PUT"
        /\ lastMut.frames[2] = lastReq'.frames[2])
       => /\ reply'.kind = "yaml_result"
          /\ reply'.result
          /\ Load(reply'.node) = Load(lastMut.frames[3])
      ]_vars

C4_Witness ==
    /\ lastReq.frames[1] = "GET" /\ Len(lastReq.frames) > 1
    /\ lastMut.frames[1] = "PUT" /\ lastMut.n = lastReq.n - 1
    /\ lastMut.frames[2] = lastReq.frames[2]
    /\ Len(lastMut.frames) = 4
    /\ reply.result
    /\ Load(reply.node) = Load(lastMut.frames[3])

\* the keychain the handlers of GET and PUT use for a path on the wire
Keychain(p) == IF p = RootKey THEN <<>> ELSE p

\* C5: a PUT without the create flag to a path that does not exist, and a
\* DEL of a path that does not exist, are answered with a result record with
\* result = false, leave the tree unchanged and queue no publication.
C5_FailedMutation ==
    [][(\/ /\ Served("PUT") /\ Len(lastReq'.frames) = 3
           /\ ~get_yaml_node(root, Keychain(lastReq'.frames[2])).result
        \/ /\ Served("DEL") /\ Len(lastReq'.frames) = 2
           /\ ~get_yaml_node(root, lastReq'.frames[2]).result)
       => /\ reply'.kind = "yaml_result"
          /\ ~reply'.result
          /\ root' = root
          /\ data_queue' = data_queue
          /\ sm_pending' = <<>>
      ]_vars

C5_Witness ==
    /\ lastReq.frames[1] = "PUT" /\ Len(lastReq.frames) = 3
    /\ lastReq.frames[2] = FooBarBaz
    /\ FooBar \in DOMAIN root
    /\ FooBarBaz \notin DOMAIN root
    /\ ~reply.result

\* the paths a client may GET
GetPaths == ReqPaths \cup {<<"foo", "qux">>, <<"Keymaster">>, <<"Keymaster", "URLS">>}

GetReply(tree, p) == handle_GET(<<p>>, tree, <<>>).reply

\* C6 as stated: after a successful DEL(p) a GET of p replies result = false,
\* and a GET of every path that is neither p nor below p replies the same
\* node as before the DEL.
C6_OthersUnchanged ==
    [][Accepted("DEL") =>
         \A q \in GetPaths :
             IF IsPrefix(lastReq'.frames[2], q)
             THEN q = lastReq'.frames[2] => ~GetReply(root', q).result
             ELSE GetReply(root', q) = GetReply(root, q)
      ]_vars

\* C6 (amended): after a successful DEL(p) a GET of p, and of every path
\* below p, replies result = false; a GET of a path that is neither p, nor
\* below p, nor an ancestor of p (the root is an ancestor of every path)
\* replies the same node as before the DEL; a GET of an ancestor of p
\* succeeds with a node that no longer holds p.
C6_DeleteThenGet ==
    [][Accepted("DEL") =>
         LET p == lastReq'.frames[2]
         IN  \A q \in GetPaths :
                 LET kq     == Keychain(q)
                     before == GetReply(root, q)
                     after  == GetReply(root', q)
                 IN  /\ IsPrefix(p, kq) => ~after.result
                     /\ ~IsPrefix(p, kq) /\ ~IsPrefix(kq, p) => after = before
                     /\ IsPrefix(kq, p) /\ kq # p =>
                            /\ after.result
                            /\ Rest(kq, p) \in DOMAIN Load(before.node)
                            /\ Rest(kq, p) \notin DOMAIN Load(after.node)
      ]_vars

C6_Witness ==
    /\ lastReq.frames = <<"DEL", FooBar>>
    /\ reply.result
    /\ ~GetReply(root, FooBar).result
    /\ ~GetReply(root, FooBarBaz).result
    /\ GetReply(root, <<"foo", "qux">>).result
    /\ GetReply(root, <<"foo">>).result

\* C7: a successful DEL of p queues, in order, one message for each strict
\* ancestor of p with its serialization after the delete, and none with
\* topic p (the put blocks while the queue is full); a DEL of a top-level
\* key queues nothing.
C7_DelPublishesAncestors ==
    [][Accepted("DEL") =>
         LET p == lastReq'.frames[2]
         IN  data_queue' \o sm_pending' =
                 data_queue \o [i \in 1..(Len(p) - 1) |-> PackageOf(root', p, i, lastReq'.n)]
      ]_vars

C7_Witness ==
    /\ lastReq.frames = <<"DEL", FooBarBaz>>
    /\ reply.result
    /\ Len(data_queue) = 2
    /\ data_queue[1].key = <<"foo">> /\ data_queue[1].tag = lastReq.n
    /\ data_queue[2].key = FooBar /\ data_queue[2].tag = lastReq.n
    /\ <<"baz">> \notin DOMAIN Load(data_queue[2].val)

\* C8: a successful PUT at "Root" and the publish("Root") of run() each put
\* into the publication queue a message with topic Root that carries the
\* whole tree.
C8_RootPublished ==
    [][(\/ Accepted("PUT") /\ lastReq'.frames[2] = RootKey
        \/ run_pc = "publish" /\ run_pc' = "done")
       => \E i \in DOMAIN data_queue' :
              /\ i > Len(data_queue)
              /\ data_queue'[i].key = RootKey
              /\ data_queue'[i].val = Emit(root')
      ]_vars

----------------------------------------------------------------------------
(* The transport registries *)

\* whether create can construct an instance for the key
Creatable(side, key) == IF side = "server" THEN TS_create(key) ELSE TC_create(key)

EntryOf(side, key) ==
    IF side = "server" THEN TS_entry(ts_transports, key) ELSE TC_entry(tc_transports, key)

IsInstance(e) == e # NoEntry /\ e # NullPtr

\* C9: the calls of get_transport for one key with no release_transport of
\* that key in between all return the same instance; once every consumer
\* that took a handle for the key has dropped it and called
\* release_transport, the next get_transport for the key (one create can
\* serve) constructs a new instance.
C9_SharedInstance ==
    /\ \A k \in TRKeys : Cardinality(since_release[k]) <= 1
    /\ (/\ tr_last.op = "get"
        /\ tr_last.engaged = {}
        /\ tr_last.released > 0
        /\ Creatable(tr_last.side, tr_last.key))
       => /\ tr_last.built
          /\ ~tr_last.threw
          /\ tr_last.inst = next_inst
          /\ tr_last.inst \in alive

C9_Witness ==
    /\ tr_last.op = "get"
    /\ tr_last.side = "server"
    /\ tr_last.engaged = {}
    /\ tr_last.released >= 2
    /\ tr_last.built
    /\ tr_last.inst = 2

\* C10: release_transport destroys the instance and removes its entry only
\* when no other consumer holds the instance; when another consumer holds
\* it the entry stays, and a get_transport made while a consumer holds the
\* instance returns that instance.
C10_LastHolderOnly ==
    /\ (tr_last.op = "release" /\ IsInstance(tr_last.entry) /\ tr_last.entry \in tr_last.holders)
       => /\ EntryOf(tr_last.side, tr_last.key) = tr_last.entry
          /\ tr_last.entry \in alive
    /\ (tr_last.op = "release" /\ IsInstance(tr_last.entry) /\ tr_last.entry \notin tr_last.holders)
       => /\ EntryOf(tr_last.side, tr_last.key) = NoEntry
          /\ tr_last.entry \notin alive
    /\ (tr_last.op = "get" /\ tr_last.holders # {})
       => /\ ~tr_last.built
          /\ tr_last.inst \in tr_last.holders

----------------------------------------------------------------------------
(* The Component lifecycle *)

Lifecycle ==
    {<<"Standby", "Initialize", "Ready">>, <<"Ready", "Start", "Running">>,
     <<"Running", "Stop", "Ready">>, <<"Ready", "Stand_down", "Standby">>}

\* C11: a Component changes state only by Standby -Initialize-> Ready,
\* Ready -Start-> Running, Running -Stop-> Ready and Ready -Stand_down->
\* Standby; an event handled in any other state leaves the state as it
\* was, and no Component goes from Standby to Running in one step.
C11_Lifecycle ==
    [][\A c \in Components :
          /\ comp_state'[c] # comp_state[c] =>
                /\ fsm_last'.comp = c
                /\ <<comp_state[c], fsm_last'.event, comp_state'[c]>> \in Lifecycle
          /\ (/\ Len(comp_events'[c]) < Len(comp_events[c])
              /\ \A t \in Lifecycle : <<t[1], t[2]>> # <<comp_state[c], Head(comp_events[c])>>)
             => comp_state'[c] = comp_state[c]
          /\ ~(comp_state[c] = "Standby" /\ comp_state'[c] = "Running")
      ]_vars

C11_Witness ==
    /\ fsm_last.event = "Start"
    /\ fsm_last.from = "Standby"
    /\ fsm_last.to = "Standby"
    /\ \E c \in Components : comp_state[c] = "Running"

\* the step is a broadcast of event e
Broadcasts(e) ==
    /\ nbcast' = nbcast + 1
    /\ \A c \in Components : comp_events'[c] = Append(comp_events[c], e)

\* C12: the Architect broadcasts Start only when every component is Ready
\* and has no event left to handle, and broadcasts Stand_down only when
\* every component is Ready again; no component is Running while another
\* is in Standby.
C12_ArchitectOrder ==
    [][/\ Broadcasts("Start") => AllIn("Ready")
       /\ Broadcasts("Stand_down") => AllIn("Ready")
       /\ ~ \E c, d \in Components : comp_state'[c] = "Running" /\ comp_state'[d] = "Standby"
      ]_vars

C12_Witness ==
    /\ nbcast = 4
    /\ arch_phase = "standdown_wait"
    /\ fsm_last = [comp |-> "comp2", from |-> "Ready", event |-> "Stand_down", to |-> "Standby"]
    /\ comp_state["comp1"] = "Ready"

----------------------------------------------------------------------------
(* Keymaster client: deferred puts *)

\* C13: the deferred put thread takes the tuples in the order of the
\* put_nb calls and makes a PUT call for a tuple exactly when no tuple was
\* handled for its key before or the last one handled for its key had
\* another value; so the same (key, value) twice in a row gives one call,
\* and v, w, v on one key gives three.
C13_Dedup ==
    [][Len(put_fifo') < Len(put_fifo) =>
         LET t == Head(put_fifo)
         IN  IF t.key \in DOMAIN seen /\ seen[t.key] = t.msg
             THEN put_rpcs' = put_rpcs
             ELSE /\ Len(put_rpcs') = Len(put_rpcs) + 1
                  /\ SubSeq(put_rpcs', 1, Len(put_rpcs)) = put_rpcs
                  /\ put_rpcs'[Len(put_rpcs')].key = t.key
                  /\ put_rpcs'[Len(put_rpcs')].msg = t.msg
      ]_vars

C13_Witness ==
    /\ nputnb = 3
    /\ put_fifo = <<>>
    /\ Len(put_rpcs) = 3
    /\ \A i \in 1..3 : put_rpcs[i].key = "comp.status"
    /\ put_rpcs[1].msg = "v" /\ put_rpcs[2].msg = "w" /\ put_rpcs[3].msg = "v"

----------------------------------------------------------------------------
(* Keymaster client: the RPC to the server *)

InCall(t) == caller[t].pc \in {"socket", "send", "recv"}

\* C14: the frames and the reply of one call are never interleaved with
\* those of another call; a thread is between its lock() and its return
\* exactly when it holds the mutex, so the mutex is free again after every
\* return, failed or not.
C14_NoInterleaving ==
    /\ \A i, j, k \in DOMAIN wire :
          (i < j /\ j < k /\ wire[i].call = wire[k].call) => wire[j].call = wire[i].call
    /\ \A t \in Threads : InCall(t) <=> shared_lock = t
    /\ (\A t \in Threads : ~InCall(t)) => shared_lock = "free"

C14_Witness ==
    /\ caller["t1"].pc = "send"
    /\ caller["t1"].sent = 2
    /\ caller["t2"].pc = "lock"
    /\ caller["t1"].call = 2
    /\ Len(wire) = 2

\* the step is the return of a call that failed for the cause given
Fails(t, cause) ==
    /\ caller[t].pc # "idle"
    /\ caller'[t].pc = "idle"
    /\ caller'[t].res.cause = cause

\* C15: when a call fails, for a timeout, a socket error or a reply that
\* cannot be parsed, it returns result=false and the request socket is
\* closed and reset, so that the next call makes a new socket and connects
\* it.
C15_ResetOnFailure ==
    [][\A t \in Threads :
          (Fails(t, "MatrixException") \/ Fails(t, "zmq::error_t") \/ Fails(t, "YAML::Exception"))
          => ~caller'[t].res.result /\ km_sock' = "null"
      ]_vars

----------------------------------------------------------------------------
(* Keymaster server: order of the publications *)

Without(q, i) == [j \in 1..(Len(q) - 1) |-> IF j < i THEN q[j] ELSE q[j + 1]]

\* C16: the publisher sends the messages of one topic in the order in
\* which the state manager accepted the requests that caused them: when a
\* message leaves the queue no message for its topic from an earlier
\* request is still waiting, and the message for the path of a PUT carries
\* the value of that PUT.
C16_TopicFifo ==
    [][Len(data_queue') < Len(data_queue) =>
         \E i \in DOMAIN data_queue :
            LET m    == data_queue[i]
                left == data_queue' \o sm_pending'
            IN  /\ data_queue' = Without(data_queue, i)
                /\ \A j \in DOMAIN left : left[j].key = m.key => left[j].tag >= m.tag
                /\ \A e \in putlog :
                      (e.n = m.tag /\ e.frames[2] = m.key) => m.val = e.frames[3]
      ]_vars

C16_Witness ==
    /\ lastReq.n = 2
    /\ \E e1, e2 \in putlog :
          /\ e1.n = 1 /\ e2.n = 2
          /\ e1.frames[2] = FooBar /\ e2.frames[2] = FooBar
          /\ e1.room /\ e2.room
          /\ e1.frames[3] # e2.frames[3]
          /\ Len(data_queue) = 2
          /\ data_queue[2] = [key |-> FooBar, val |-> e2.frames[3], tag |-> 2]

----------------------------------------------------------------------------
(* Keymaster server: run() *)

\* the state manager answers requests and a GET of both paths succeeds
ServesGet ==
    /\ state_manager_thread = "poll"
    /\ get_yaml_node(root, AsConfiguredState).result
    /\ get_yaml_node(root, AsConfiguredPub).result

\* C17: the state manager is started only after the publisher has
\* signalled that it is ready; the state manager signals that it is ready
\* only after it has bound its sockets and written both AsConfigured
\* paths; and whenever run() has returned normally a GET of either path
\* succeeds.
C17_ReadyOnReturn ==
    /\ state_manager_thread # "none" => server_thread_ready
    /\ state_manager_thread_ready => ServesGet
    /\ run_pc = "done" => ServesGet

TcpEntries(urls) == {i \in DOMAIN urls : urls[i][1] = "tcp"}

NoStarHost(urls) == \A i \in TcpEntries(urls) : urls[i][2] # "*"

Written == state_manager_thread_ready

\* C18 as stated: once run() has returned with the lists written, each of
\* them holds exactly one entry per URL of Keymaster.URLS.Initial, and no
\* TCP entry has '*' as its host.
C18_OnePerInitial ==
    (run_pc = "done" /\ Written) =>
        /\ Len(as_configured.State) = Len(initial_urls)
        /\ Len(as_configured.Pub) = Len(initial_urls)
        /\ NoStarHost(as_configured.State)
        /\ NoStarHost(as_configured.Pub)

InitialHasInproc == \E i \in DOMAIN initial_urls : ToLower(initial_urls[i])[1] = "inproc"

\* C18: once the state manager has written the lists, AsConfigured.Pub
\* holds one entry per URL of Keymaster.URLS.Initial, AsConfigured.State
\* holds one entry per URL of Initial and, when Initial names no inproc
\* URL, one generated inproc URL after them; no TCP entry has '*' as its
\* host.
C18_UrlLists ==
    Written =>
        /\ Len(as_configured.Pub) = Len(initial_urls)
        /\ Len(as_configured.State)
              = Len(initial_urls) + (IF InitialHasInproc THEN 0 ELSE 1)
        /\ ~InitialHasInproc => as_configured.State[Len(initial_urls) + 1] = RandomUrl
        /\ NoStarHost(as_configured.State)
        /\ NoStarHost(as_configured.Pub)

C18_Witness ==
    /\ run_pc = "done"
    /\ initial_urls = <<TcpUrl>>
    /\ as_configured.State = <<<<"tcp", Hostname, 42000>>, RandomUrl>>
    /\ as_configured.Pub = <<<<"tcp", Hostname, 42001>>>>
----------------------------------------------------------------------------
(* Keymaster server: the heartbeat *)

\* the value a GET of Keymaster.heartbeat returns from this tree, 0 when
\* the path is not there
Heartbeat(tree) ==
    LET r == get_yaml_node(tree, HeartbeatKey)
    IN  IF r.result THEN as_time(r.node[<<>>]) ELSE 0

\* C19: the values GETs of Keymaster.heartbeat return are in
\* non-decreasing order, in the order the GETs were served; the value at
\* Keymaster.heartbeat never decreases; and every value the heartbeat
\* worker takes for a write is the one before plus one second.
C19_Monotonic ==
    /\ [](\A i, j \in DOMAIN samples : i <= j => samples[i] <= samples[j])
    /\ [][Heartbeat(root') >= Heartbeat(root)]_vars
    /\ [][hb_val' # hb_val => (hb_val' = hb_val + one_sec \/ hb_val = 0)]_vars

C19_Witness ==
    /\ Len(samples) = 2
    /\ samples[1] < samples[2]
    /\ Heartbeat(root) = samples[2]

----------------------------------------------------------------------------
(* Keymaster server: terminate() *)

AllJoined ==
    /\ state_manager_thread = "none"
    /\ server_thread = "none"
    /\ heartbeat_thread = "none"

\* C20: a terminate() that was called returns, and it has returned only
\* when the state manager, the publisher and the heartbeat worker have
\* ended and were joined.
C20_TerminateReturns ==
    /\ (term_pc # "idle") ~> (term_pc = "returned")
    /\ [](term_pc = "returned" => AllJoined)

\* terminate() has returned although a request was never taken off the
\* state socket and a data_package was never sent
C20_Witness ==
    /\ term_pc = "returned"
    /\ AllJoined
    /\ hb_wire # <<>>
    /\ data_queue # <<>>

----------------------------------------------------------------------------
(* Transports: creation *)

Ended == cr_pc \in {"CreationError", "built", "crashed"}

\* an entry of the list, or the scheme of the URN, has no registered factory
Unregistered ==
    IF cr_side = "server"
    THEN \E i \in DOMAIN cr_spec : cr_spec[i] \notin DOMAIN ServerFactories
    ELSE SchemeOf(cr_spec[1]) \notin DOMAIN ClientFactories

\* the entries of the list resolve to different factories
Conflicting ==
    /\ cr_side = "server"
    /\ \E i, j \in DOMAIN cr_spec :
          /\ cr_spec[i] \in DOMAIN ServerFactories
          /\ cr_spec[j] \in DOMAIN ServerFactories
          /\ ServerFactories[cr_spec[i]] # ServerFactories[cr_spec[j]]

\* C21: create has failed with CreationError, having called no factory,
\* when an entry has no registered factory or the entries resolve to
\* different factories; otherwise it has called the one common factory.
C21_CreateOrError ==
    cr_pc \notin {"create"} =>
        IF Unregistered \/ Conflicting
        THEN cr_pc = "CreationError" /\ cr_factory = "none"
        ELSE /\ cr_pc # "crashed"
             /\ cr_factory \in {"ZMQTransportServer", "RTTransportServer",
                                "ZMQTransportClient", "RTTransportClient"}

\* C22: when a bind or the look-up of the canonical host name failed, the
\* creation ends with an error and no AsConfigured list is in the store.
C22_AllOrNothing ==
    cr_fault # "none" =>
        /\ cr_pc # "built"
        /\ cr_asconf = <<>>

\* C23: with Specified = [tcp://*] the creation ends with a transport
\* whose AsConfigured list starts with tcp://<canonical host>:<port>.
C23_TcpStar ==
    (cr_side = "server" /\ cr_spec = <<"tcp://*">> /\ Ended) =>
        /\ cr_pc = "built"
        /\ cr_asconf # <<>>
        /\ cr_asconf[1] = Url("tcp", Hostname, EphemeralPort)


\* where an event stands in the history of the call, 0 when it is not there
Pos(e) == IF \E i \in DOMAIN rc_trace : rc_trace[i] = e
          THEN CHOOSE i \in DOMAIN rc_trace : rc_trace[i] = e
          ELSE 0

\* the callback was called before cb.rval returned
DeliveredInTime == Pos("deliver") > 0 /\ Pos("deliver") < Pos("woke")

\* C24: when rpc returns, it subscribed to <key>.reply before it wrote
\* <key>.request, it waited no longer than the timeout, it has unsubscribed
\* from <key>.reply whether the put succeeded or not and whether a reply came
\* or not, and its result is a failed one when no reply was delivered in time.
C24_Rpc ==
    rc_pc = "returned" =>
        /\ Pos("put") > 0 => (Pos("subscribe") > 0 /\ Pos("subscribe") < Pos("put"))
        /\ Pos("subscribe") > 0 =>
               /\ rc_trace[Len(rc_trace)] = "unsubscribe"
               /\ reply_key(rc_key) \notin rc_callbacks
        /\ rc_waited <= rc_to
        /\ ~DeliveredInTime => rc_reply = "failed"

\* rpc has returned a failed result after the whole timeout, and has
\* unsubscribed
C24_Witness ==
    /\ rc_pc = "returned"
    /\ rc_trace = <<"subscribe", "put", "woke", "unsubscribe">>
    /\ rc_waited = rc_to
    /\ rc_reply = "failed"


\* subscribe waits for an answer that cannot come: the worker has returned,
\* or has no pipe
Stuck ==
    /\ sb_pc = "waitack"
    /\ sb_thread = "exited" \/ (sb_thread = "poll" /\ ~sb_bound)

\* C25: subscribe never throws and never waits for a worker that is not
\* there, and it has returned true only when the worker holds the key.
C25_SubscribeResult ==
    /\ sb_pc # "thrown"
    /\ ~Stuck
    /\ sb_pc = "true" => sb_key \in sb_callbacks


\* what a client is made of, beside the count and the record of the calls
TcState == <<tc_pc, tc_connected, tc_thread, tc_wpc, tc_ready, tc_pipe, tc_ack, tc_subscribers,
             tc_filter, tc_inbox, tc_found, tc_delivered, tc_published, tc_access, tc_sent,
             tc_open, tc_fault>>

\* a call of disconnect() is made
DisconnectCalled == tc_ops' = tc_ops + 1 /\ tc_op'[1] = "disconnect"

\* C26: a disconnect() on a client that is not connected (a second
\* disconnect, or one on a client that never connected) returns at once,
\* changes nothing and sends nothing on the pipe; the disconnect() of a
\* connected client ends with the worker stopped, its sockets closed and
\* the client marked disconnected.
C26_DisconnectIdempotent ==
    [][/\ (DisconnectCalled /\ ~tc_connected) =>
              (UNCHANGED TcState /\ tc_pc' = "idle" /\ tc_op'[2] = "false")
       /\ (tc_pc = "quit_wait" /\ tc_pc' = "idle") =>
              (~tc_connected' /\ ~Running(tc_thread') /\ tc_wpc' = "off" /\ ~tc_open')]_vars

\* a client was connected, was disconnected, and disconnect() was called again
C26_Witness ==
    /\ tc_op = <<"disconnect", "false", "unconnected">>
    /\ tc_ops = 3
    /\ tc_sent = 1
    /\ ~tc_connected
    /\ tc_thread = "none"

\* C29: nothing but the worker touches sub_sock and _subscribers: the
\* calls of other threads go through the pipe and wait for the answer, and
\* between the look-up of a callback and its call no control message is
\* processed.
C29_WorkerOnly ==
    /\ tc_access \subseteq {"worker"}
    /\ tc_pc \in {"wait", "quit_wait"} =>
           (tc_pipe # <<>> \/ tc_ack # "none" \/ tc_wpc \in {"closing", "exited"})
    /\ (tc_wpc = "exec" /\ tc_found[2]) => tc_found[1] \in tc_subscribers

\* the worker has entered a callback on request, and has called it for a
\* publication, while a caller waits for the answer to a further request
C29_Witness ==
    /\ tc_delivered # <<>>
    /\ tc_pc = "wait"
    /\ tc_ack # "none"
    /\ tc_access = {"worker"}

\* C30: once the worker has caught a zmq error that is not the terminated
\* context, it is on its way out: it closes its sockets and returns, and
\* does not go back to poll.
C30_ExitOnFault ==
    tc_fault = "socket" => tc_wpc \in {"closing", "exited", "off"}


\* the step in which the thread that called run() evaluates publish() over
\* _root_node
RunReadsTree == run_pc = "publish" /\ run_pc' = "done"

\* C27: once the state manager has been started, no thread but the state
\* manager reads or writes the tree; the thread that calls run() takes no
\* step that reads it.
C27_TreeOwner ==
    [][RunReadsTree => ~Running(state_manager_thread)]_vars

\* C28: when run() comes to publish the root, the heartbeat worker has not
\* been started yet.
C28_PublishBeforeHeartbeat ==
    run_pc = "publish" => ~Running(heartbeat_thread)


\* C31: the state manager is never ended by an error, and has answered
\* every request it has read, whether the value of a PUT parsed or not and
\* whether the emitter failed in publish() or not.
C31_NoEscape ==
    /\ sv_thread # "terminated"
    /\ sv_sent = sv_read

\* C32: a clone is made once per clone_interval PUTs that succeeded (PUTs
\* that fail are not counted), the list of roots has one entry, and the
\* clone leaves the tree as the PUT made it.
C32_CloneInterval ==
    /\ sv_clones = sv_good \div clone_interval
    /\ sv_live = 1

\* a pass of the loop reads one request
ReadsRequest == sv_read' = sv_read + 1

\* the requests that are to change nothing: ping, GET, unknown commands and
\* requests with frames missing
Harmless(frames) ==
    \/ frames[1] \notin {"PUT", "DEL"}
    \/ Len(frames) = 1
    \/ frames[1] = "PUT" /\ Len(frames) = 2

\* C37: every pass that reads a request sends one reply, and a request that
\* is a ping, a GET, an unknown command or short of frames leaves the tree
\* and the publication queue as they were.
C37_Lockstep ==
    [][ReadsRequest =>
           /\ sv_sent' = sv_sent + 1
           /\ Harmless(lastReq'.frames) => UNCHANGED <<root, data_queue, sm_pending>>]_vars


\* the callback invocations of client c made by this step
NewCalls(c) == {i \in DOMAIN cb_log'[c] : i > Len(cb_log[c])}

C34_NoCallAfterUnsubscribe ==
    /\ \A k \in KsKeys :
           ks_done[k].log >= 0 =>
               \A i \in DOMAIN ks_log : i > ks_done[k].log => ks_log[i] # k
    /\ ks_quit >= 0 => Len(ks_log) = ks_quit /\ ks_worker = "exited"

\* key was subscribed twice, so a filter for it remains; unsubscribe(key)
\* returned true while a publication of key was queued at the socket, and
\* that publication has since been taken from the socket
C34_Witness ==
    \E k \in KsKeys :
        /\ ks_done[k].log >= 0
        /\ ks_filter[k] >= 1
        /\ \E i \in DOMAIN ks_done[k].queued : ks_done[k].queued[i] = k
        /\ ks_taken >= ks_done[k].taken + Len(ks_done[k].queued)


\* the pass of the deferred put thread in this step makes a PUT call
SendsPut == Len(put_fifo') < Len(put_fifo) /\ Len(put_rpcs') = Len(put_rpcs) + 1

\* C35: the deferred put thread sends a PUT with the create flag only for
\* a tuple whose put_nb call asked for create = true.
C35_CreateAsAsked ==
    [][SendsPut /\ put_rpcs'[Len(put_rpcs')].create => Head(put_fifo).create]_vars

\* the last PUT call made for the key was for this value and failed
LastPutFailed(key, msg) ==
    \E i \in DOMAIN put_rpcs :
        /\ put_rpcs[i].key = key
        /\ put_rpcs[i].msg = msg
        /\ ~put_rpcs[i].ok
        /\ \A j \in DOMAIN put_rpcs : j > i => put_rpcs[j].key # key

\* C36: a tuple (path, v) taken from the queue when the last PUT call for
\* path was for v and failed is sent to the server again.
C36_ResendAfterFailure ==
    [][Len(put_fifo') < Len(put_fifo)
         /\ LastPutFailed(Head(put_fifo).key, Head(put_fifo).msg)
       => SendsPut]_vars


\* the server transport instances for the key that are alive: those the
\* registry holds and those consumers hold
AliveFor(key) ==
    {i \in alive : i = TS_entry(ts_transports, key) \/ i \in Held("server", key)}

\* C38: whenever a server transport instance for a key is alive the store
\* holds AsConfigured for the key, written by an instance for the key that
\* is alive, and the entry is absent when no instance for the key is alive.
C38_AsConfiguredWhileAlive ==
    \A key \in ServerKeys :
        /\ AliveFor(key) # {} => ts_configured[key] \in AliveFor(key)
        /\ AliveFor(key) = {} => ts_configured[key] = NullPtr


\* the step in which connect() returns true
ConnectReturnsTrue == tc_pc = "connect_wait" /\ ~tc_connected /\ tc_connected'

\* C39: connect() returns true only when the worker started by the call has
\* bound its control pipe and signalled readiness, also when the call
\* follows a disconnect().
C39_ConnectAfterWorkerReady ==
    [][ConnectReturnsTrue => tc_wpc \notin {"init", "off"}]_vars


\* C40: after size() every field's offset is a multiple of its type size,
\* the fields lie at non-overlapping offsets in declaration order, and the
\* size returned is a multiple of the largest type size and at least
\* offset + type size of every field.
C40_Aligned ==
    dd_pc = "sized" =>
        /\ \A i \in DOMAIN dd_types : dd_offsets[i] % type_info[dd_types[i]] = 0
        /\ \A i \in DOMAIN dd_types :
               i > 1 => dd_offsets[i - 1] + type_info[dd_types[i - 1]] <= dd_offsets[i]
        /\ dd_size % s_elem_size(dd_types) = 0
        /\ \A i \in DOMAIN dd_types : dd_offsets[i] + type_info[dd_types[i]] <= dd_size

====
